---- MODULE Spec2Model ----
(***************************************************************************)
(* Query routing and multi-agent orchestration core:                       *)
(*   app/agents/router_agent.py          RouterAgent                       *)
(*   app/services/orchestrator_service.py OrchestratorService              *)
(* and the components behind the agent wrappers, called one at a time:     *)
(*   app/services/database_service.py    DatabaseService                   *)
(*   app/agents/sql_agent.py             SQLAgent                          *)
(*   app/agents/rag_agent.py             RAGAgent                          *)
(*   app/services/search_service.py      SearchService                     *)
(*   app/agents/web_search_agent.py      WebSearchAgent                    *)
(* and the HTTP handlers that keep the chat history:                       *)
(*   app/api/routes.py                   chat, clear_history               *)
(*                                                                         *)
(* Text is a sequence of characters.  A character is a record              *)
(*   [s |-> script, c |-> letter, up |-> upper-case?]                      *)
(* with script "lat" (Latin), "cyr" (Cyrillic, written by its              *)
(* transliteration), "sym" (digits, blanks, punctuation) or "txt" (a       *)
(* fixed run of message text that the code only ever concatenates).        *)
(* Python values (the parsed JSON of the classifier, the fields of a       *)
(* routing decision) are tagged records [t |-> type, ...]; a dict is a     *)
(* function from its keys.  A call that may raise returns                  *)
(* [ok |-> TRUE, val |-> v] or [ok |-> FALSE, err |-> str(e)].             *)
(***************************************************************************)
EXTENDS Integers, Sequences, FiniteSets, TLC

\* ------------------------------------------------------------------ text

Lat(w) == [i \in DOMAIN w |-> [s |-> "lat", c |-> w[i], up |-> FALSE]]
Cyr(w) == [i \in DOMAIN w |-> [s |-> "cyr", c |-> w[i], up |-> FALSE]]
Sym(w) == [i \in DOMAIN w |-> [s |-> "sym", c |-> w[i], up |-> FALSE]]
Txt(t) == << [s |-> "txt", c |-> t, up |-> FALSE] >>
SP == Sym(<<" ">>)

\* str.upper(), str.lower(): letters change case, everything else is kept.
str_upper(x) ==
    [i \in DOMAIN x |-> IF x[i].s \in {"lat", "cyr"} THEN [x[i] EXCEPT !.up = TRUE] ELSE x[i]]

str_lower(x) ==
    [i \in DOMAIN x |-> IF x[i].s \in {"lat", "cyr"} THEN [x[i] EXCEPT !.up = FALSE] ELSE x[i]]

\* The first letter in upper case (how a user starts a sentence).
Cap(x) == [i \in DOMAIN x |-> IF i = 1 THEN [x[i] EXCEPT !.up = TRUE] ELSE x[i]]

\* Python's `sub in text` on strings.
str_in(sub, text) ==
    \E i \in 0..(Len(text) - Len(sub)) : SubSeq(text, i + 1, i + Len(sub)) = sub

\* text.find(sub): 0-based offset of the first occurrence, -1 when absent.
str_find(sub, text) ==
    IF str_in(sub, text)
    THEN CHOOSE i \in 0..(Len(text) - Len(sub)) :
            /\ SubSeq(text, i + 1, i + Len(sub)) = sub
            /\ \A j \in 0..(i - 1) : SubSeq(text, j + 1, j + Len(sub)) # sub
    ELSE -1

IsSpace(ch) == ch.s = "sym" /\ ch.c \in {" ", "\n", "\t"}

\* str.strip(): leading and trailing white space removed.
str_strip(x) ==
    LET keep == {i \in DOMAIN x : ~IsSpace(x[i])}
    IN  IF keep = {} THEN <<>>
        ELSE LET lo == CHOOSE i \in keep : \A j \in keep : i <= j
                 hi == CHOOSE i \in keep : \A j \in keep : j <= i
             IN  SubSeq(x, lo, hi)

\* sep.join(parts)
RECURSIVE str_join(_, _)
str_join(sep, parts) ==
    IF Len(parts) = 0 THEN <<>>
    ELSE IF Len(parts) = 1 THEN parts[1]
    ELSE parts[1] \o sep \o str_join(sep, Tail(parts))

\* `any(kw in text for kw in keywords)`
any_kw_in(keywords, text) == \E k \in DOMAIN keywords : str_in(keywords[k], text)

Range(f) == {f[i] : i \in DOMAIN f}

\* Filter of a sequence, order kept.
RECURSIVE SelectIdx(_, _)
SelectIdx(n, keep) ==
    IF n = 0 THEN <<>>
    ELSE IF n \in keep THEN Append(SelectIdx(n - 1, keep), n) ELSE SelectIdx(n - 1, keep)

\* --------------------------------------------------------- Python values

Str(x) == [t |-> "str", str |-> x]
Num(n) == [t |-> "num", num |-> n]          \* a float, in hundredths
BigInt == [t |-> "bigint"]                  \* an int too large for float()
Null == [t |-> "null"]
List(l) == [t |-> "list", items |-> l]
Obj(d) == [t |-> "obj", obj |-> d]

Ok(v) == [ok |-> TRUE, val |-> v]
Raise(cls, e) == [ok |-> FALSE, cls |-> cls, err |-> e]

setdefault(d, k, v) == IF k \in DOMAIN d THEN d ELSE d @@ (k :> v)
setitem(d, k, v) == [x \in DOMAIN d \cup {k} |-> IF x = k THEN v ELSE d[x]]

\* --------------------------------------------------------------- tools

SQL == str_upper(Lat(<<"s", "q", "l">>))
RAG == str_upper(Lat(<<"r", "a", "g">>))
WEB_SEARCH == str_upper(Lat(<<"w", "e", "b">>) \o Sym(<<"_">>) \o Lat(<<"s", "e", "a", "r", "c", "h">>))
MULTIPLE == str_upper(Lat(<<"m", "u", "l", "t", "i", "p", "l", "e">>))
NONE == str_upper(Lat(<<"n", "o", "n", "e">>))

ConcreteTools == {SQL, RAG, WEB_SEARCH}

\* ------------------------------------------------ router_agent.py: keywords

kw_skolko == Cyr(<<"s", "k", "o", "l", "soft", "k", "o">>)
kw_count == Lat(<<"c", "o", "u", "n", "t">>)
kw_kolichestvo == Cyr(<<"k", "o", "l", "i", "ch", "e", "s", "t", "v", "o">>)
kw_statistika == Cyr(<<"s", "t", "a", "t", "i", "s", "t", "i", "k", "a">>)
kw_novosti == Cyr(<<"n", "o", "v", "o", "s", "t", "i">>)
kw_news == Lat(<<"n", "e", "w", "s">>)
kw_trend_ru == Cyr(<<"t", "r", "e", "n", "d">>)
kw_trend == Lat(<<"t", "r", "e", "n", "d">>)
kw_kto_rabotaet == Cyr(<<"k", "t", "o">>) \o SP \o Cyr(<<"r", "a", "b", "o", "t", "a", "e", "t">>)
kw_komanda == Cyr(<<"k", "o", "m", "a", "n", "d", "a">>)
kw_razrabotchik == Cyr(<<"r", "a", "z", "r", "a", "b", "o", "t", "ch", "i", "k">>)
kw_incident == Cyr(<<"i", "n", "c", "i", "d", "e", "n", "t">>)
kw_chto_takoe == Cyr(<<"ch", "t", "o">>) \o SP \o Cyr(<<"t", "a", "k", "o", "e">>)
kw_kak_rabotaet == Cyr(<<"k", "a", "k">>) \o SP \o Cyr(<<"r", "a", "b", "o", "t", "a", "e", "t">>)
kw_vozmozhnosti == Cyr(<<"v", "o", "z", "m", "o", "zh", "n", "o", "s", "t", "i">>)
kw_funkcii == Cyr(<<"f", "u", "n", "k", "c", "i", "i">>)
kw_opisanie == Cyr(<<"o", "p", "i", "s", "a", "n", "i", "e">>)
kw_dokumentaciya == Cyr(<<"d", "o", "k", "u", "m", "e", "n", "t", "a", "c", "i", "ya">>)
kw_aktualn == Cyr(<<"a", "k", "t", "u", "a", "l", "soft", "n">>)
kw_poslednie == Cyr(<<"p", "o", "s", "l", "e", "d", "n", "i", "e">>)
kw_sejchas == Cyr(<<"s", "e", "j", "ch", "a", "s">>)

\* _fallback_routing's two keyword lists (lines 251, 260).
fallback_sql_keywords == <<kw_skolko, kw_count, kw_kolichestvo, kw_statistika>>
fallback_web_keywords == <<kw_novosti, kw_news, kw_trend_ru, kw_trend>>

\* _infer_tools_from_query's three keyword lists (lines 214, 219, 224).
sql_keywords == <<kw_skolko, kw_kto_rabotaet, kw_komanda, kw_razrabotchik, kw_incident, kw_statistika>>
rag_keywords == <<kw_chto_takoe, kw_kak_rabotaet, kw_vozmozhnosti, kw_funkcii, kw_opisanie, kw_dokumentaciya>>
web_keywords == <<kw_novosti, kw_aktualn, kw_trend_ru, kw_poslednie, kw_sejchas>>

valid_tools == <<SQL, RAG, WEB_SEARCH, MULTIPLE>>

\* ------------------------------------------ router_agent.py: RouterAgent

\* The keyword checks with the web search list tried before the SQL list.
fallback_web_first(query_lower, error_message) ==
    IF any_kw_in(fallback_web_keywords, query_lower)
    THEN [tool |-> Str(WEB_SEARCH),
          reasoning |-> Str(Txt("Fallback routing: query contains web search keywords. Error: ") \o error_message),
          confidence |-> Num(60),
          query_type |-> Str(Txt("fallback_web_search"))]
    ELSE IF any_kw_in(fallback_sql_keywords, query_lower)
    THEN [tool |-> Str(SQL),
          reasoning |-> Str(Txt("Fallback routing: query contains SQL keywords. Error: ") \o error_message),
          confidence |-> Num(60),
          query_type |-> Str(Txt("fallback_sql"))]
    ELSE [tool |-> Str(RAG),
          reasoning |-> Str(Txt("Fallback routing: defaulting to RAG. Error: ") \o error_message),
          confidence |-> Num(50),
          query_type |-> Str(Txt("fallback_rag"))]

\* Lines 251-274: the keyword checks on the lower-cased query, SQL first.
fallback_decision(query_lower, error_message) ==
    IF any_kw_in(fallback_sql_keywords, query_lower)
    THEN [tool |-> Str(SQL),
          reasoning |-> Str(Txt("Fallback routing: query contains SQL keywords. Error: ") \o error_message),
          confidence |-> Num(60),
          query_type |-> Str(Txt("fallback_sql"))]
    ELSE IF any_kw_in(fallback_web_keywords, query_lower)
    THEN [tool |-> Str(WEB_SEARCH),
          reasoning |-> Str(Txt("Fallback routing: query contains web search keywords. Error: ") \o error_message),
          confidence |-> Num(60),
          query_type |-> Str(Txt("fallback_web_search"))]
    ELSE [tool |-> Str(RAG),
          reasoning |-> Str(Txt("Fallback routing: defaulting to RAG. Error: ") \o error_message),
          confidence |-> Num(50),
          query_type |-> Str(Txt("fallback_rag"))]

\* A fallback that matches the keywords against the query as typed.
fallback_case_sensitive(query, error_message) == fallback_decision(query, error_message)

\* RouterAgent._fallback_routing: line 248 lower-cases the query.
_fallback_routing(query, error_message) == fallback_decision(str_lower(query), error_message)

\* RouterAgent._infer_tools_from_query: every keyword list that matches, [RAG] when none does.
_infer_tools_from_query(query) ==
    LET query_lower == str_lower(query)
        tools == (IF any_kw_in(sql_keywords, query_lower) THEN <<Str(SQL)>> ELSE <<>>)
                 \o (IF any_kw_in(rag_keywords, query_lower) THEN <<Str(RAG)>> ELSE <<>>)
                 \o (IF any_kw_in(web_keywords, query_lower) THEN <<Str(WEB_SEARCH)>> ELSE <<>>)
    IN  IF tools = <<>> THEN <<Str(RAG)>> ELSE tools

\* The classifier's reply is a sequence of segments:
\*   [seg |-> "fence_json"]          the characters ```json
\*   [seg |-> "fence"]               the characters ```
\*   [seg |-> "ws"]                  one white-space character
\*   [seg |-> "prose"]               words, with no backtick and no brace
\*   [seg |-> "json", val |-> v]     the JSON text of the value v
\*   [seg |-> "cut", val |-> v]      that text without its last character (v an
\*                                   object, list, string or null: not JSON any more)
IsFence(sg) == sg.seg \in {"fence_json", "fence"}
HasOpenBrace(sg) == sg.seg \in {"json", "cut"} /\ sg.val.t = "obj"
HasCloseBrace(sg) == sg.seg = "json" /\ sg.val.t = "obj"

seg_strip(text) ==
    LET keep == {i \in DOMAIN text : text[i].seg # "ws"}
    IN  IF keep = {} THEN <<>>
        ELSE LET lo == CHOOSE i \in keep : \A j \in keep : i <= j
                 hi == CHOOSE i \in keep : \A j \in keep : j <= i
             IN  SubSeq(text, lo, hi)

\* text[:-1]
seg_drop_last_char(text) ==
    LET n == Len(text)
    IN  IF n = 0 THEN <<>>
        ELSE IF text[n].seg = "ws" THEN SubSeq(text, 1, n - 1)
        ELSE IF text[n].seg = "json" THEN [text EXCEPT ![n] = [seg |-> "cut", val |-> text[n].val]]
        ELSE text

\* text[start:end] where start follows the fence at index `at` and end = text.find("```", start).
seg_between_fences(text, at) ==
    LET closing == {j \in DOMAIN text : j > at /\ IsFence(text[j])}
        rest == SubSeq(text, at + 1, Len(text))
    IN  IF closing = {} THEN seg_drop_last_char(rest)
        ELSE SubSeq(text, at + 1, (CHOOSE j \in closing : \A k \in closing : j <= k) - 1)

\* Lines 111-124: the text between the first ```json (or, failing that, the first ```)
\* and the next ```.
strip_fences(stripped) ==
    LET jsonFences == {i \in DOMAIN stripped : stripped[i].seg = "fence_json"}
        fences == {i \in DOMAIN stripped : IsFence(stripped[i])}
    IN  IF jsonFences # {}
        THEN seg_strip(seg_between_fences(stripped, CHOOSE i \in jsonFences : \A j \in jsonFences : i <= j))
        ELSE IF fences # {}
        THEN seg_strip(seg_between_fences(stripped, CHOOSE i \in fences : \A j \in fences : i <= j))
        ELSE stripped

\* Lines 126-130: when the text does not start with "{", text[text.find("{") : text.rfind("}") + 1].
slice_braces(unfenced) ==
    LET opens == {i \in DOMAIN unfenced : HasOpenBrace(unfenced[i])}
        closes == {i \in DOMAIN unfenced : HasCloseBrace(unfenced[i])}
    IN  IF Len(unfenced) > 0 /\ HasOpenBrace(unfenced[1]) THEN unfenced
        ELSE IF opens = {} THEN unfenced
        ELSE IF closes = {} THEN <<>>
        ELSE SubSeq(unfenced,
                    CHOOSE i \in opens : \A j \in opens : i <= j,
                    CHOOSE i \in closes : \A j \in closes : j <= i)

\* Lines 132-138: json.loads; a JSONDecodeError becomes a ValueError.
json_loads(body) ==
    IF Len(body) = 1 /\ body[1].seg = "json"
    THEN Ok(body[1].val)
    ELSE Raise("ValueError", Txt("Invalid JSON response: "))

\* RouterAgent._parse_routing_response
_parse_routing_response(response_text) ==
    json_loads(seg_strip(slice_braces(strip_fences(seg_strip(response_text)))))

\* float(x) for the values a JSON confidence can hold; strings of the form d*[.d*].
IsDigit(ch) == ch.s = "sym" /\ ch.c \in {"0", "1", "2", "3", "4", "5", "6", "7", "8", "9"}
DigitVal(ch) ==
    CASE ch.c = "0" -> 0 [] ch.c = "1" -> 1 [] ch.c = "2" -> 2 [] ch.c = "3" -> 3 [] ch.c = "4" -> 4
      [] ch.c = "5" -> 5 [] ch.c = "6" -> 6 [] ch.c = "7" -> 7 [] ch.c = "8" -> 8 [] ch.c = "9" -> 9

RECURSIVE DigitsVal(_)
DigitsVal(x) ==
    IF Len(x) = 0 THEN 0 ELSE DigitsVal(SubSeq(x, 1, Len(x) - 1)) * 10 + DigitVal(x[Len(x)])

py_float(v) ==
    IF v.t = "num" THEN Ok(v.num)
    ELSE IF v.t = "bigint" THEN Raise("OverflowError", Txt("int too large to convert to float"))
    ELSE IF v.t # "str" THEN Raise("TypeError", Txt("float() argument must be a string or a real number"))
    ELSE LET x == str_strip(v.str)
             dot == str_find(Sym(<<".">>), x)
             whole == IF dot = -1 THEN x ELSE SubSeq(x, 1, dot)
             frac == IF dot = -1 THEN <<>> ELSE SubSeq(x, dot + 2, Len(x))
             frac2 == SubSeq(frac \o Sym(<<"0", "0">>), 1, 2)
         IN  IF /\ Len(whole) + Len(frac) > 0
                /\ \A i \in DOMAIN whole : IsDigit(whole[i])
                /\ \A i \in DOMAIN frac : IsDigit(frac[i])
             THEN Ok(DigitsVal(whole) * 100 + DigitsVal(frac2))
             ELSE Raise("ValueError", Txt("could not convert string to float"))

py_max(a, b) == IF a >= b THEN a ELSE b
py_min(a, b) == IF a <= b THEN a ELSE b

\* `"tool" not in decision`, `decision["tool"]` for whatever json.loads returned.
has_tool_key(decision) ==
    IF decision.t = "obj" THEN Ok("tool" \in DOMAIN decision.obj)
    ELSE IF decision.t = "list" THEN Ok(\E i \in DOMAIN decision.items : decision.items[i] = Str(Lat(<<"t", "o", "o", "l">>)))
    ELSE IF decision.t = "str" THEN Ok(str_in(Lat(<<"t", "o", "o", "l">>), decision.str))
    ELSE Raise("TypeError", Txt("argument is not iterable"))

\* A tools list that is upper-cased but not filtered.
filter_tools_unfiltered(items) ==
    IF \E i \in DOMAIN items : items[i].t # "str"
    THEN Raise("AttributeError", Txt("object has no attribute 'upper'"))
    ELSE Ok([i \in DOMAIN items |-> Str(str_upper(items[i].str))])

\* The list comprehension of lines 189-192; t.upper() raises on a non-string.
filter_tools(items) ==
    IF \E i \in DOMAIN items : items[i].t # "str"
    THEN Raise("AttributeError", Txt("object has no attribute 'upper'"))
    ELSE LET keep == {i \in DOMAIN items : str_upper(items[i].str) \in ConcreteTools}
             idx == SelectIdx(Len(items), keep)
         IN  Ok([j \in DOMAIN idx |-> Str(str_upper(items[idx[j]].str))])

\* Lines 169-172: the tool in upper case and the three setdefault calls.
fill_defaults(d0, tool) ==
    setdefault(setdefault(setdefault(setitem(d0, "tool", Str(tool)),
                                     "reasoning", Str(Txt("No reasoning provided"))),
                          "confidence", Num(50)),
               "query_type", Str(Txt("unknown")))

\* Lines 175-179: float(confidence) clamped to [0, 1]; 0.5 on ValueError or TypeError.
clamp_confidence(d4, conf) ==
    IF ~conf.ok /\ conf.cls \notin {"ValueError", "TypeError"} THEN conf
    ELSE Ok(setitem(d4, "confidence",
                    IF conf.ok THEN Num(py_max(0, py_min(100, conf.val))) ELSE Num(50)))

\* Lines 182-186: tools absent or not a list is replaced by the inferred list.
ensure_tools(d5, query) ==
    IF "tools" \notin DOMAIN d5 \/ d5["tools"].t # "list"
    THEN setitem(d5, "tools", List(_infer_tools_from_query(query)))
    ELSE d5

\* Lines 188-196: the kept tools; none left is a fallback.
keep_valid_tools(d6, kept, query) ==
    IF ~kept.ok THEN kept
    ELSE IF kept.val = <<>> THEN Ok(_fallback_routing(query, Txt("Empty tools list")))
    ELSE Ok(setitem(d6, "tools", List(kept.val)))

\* Lines 181-196: the MULTIPLE branch.
validate_multiple(d6, query) == keep_valid_tools(d6, filter_tools(d6["tools"].items), query)

\* Lines 181-198 for the decision clamp_confidence produced.
finish_decision(clamped, tool, query) ==
    IF ~clamped.ok THEN clamped
    ELSE IF tool # MULTIPLE THEN clamped
    ELSE validate_multiple(ensure_tools(clamped.val, query), query)

\* Lines 168-198, once the tool name is known to be valid.
normalize_decision(d0, tool, query) ==
    finish_decision(clamp_confidence(fill_defaults(d0, tool), py_float(fill_defaults(d0, tool)["confidence"])),
                    tool, query)

\* RouterAgent._validate_routing_decision
_validate_routing_decision(decision, query) ==
    LET has == has_tool_key(decision)
    IN  IF ~has.ok THEN has
        ELSE IF ~has.val THEN Ok(_fallback_routing(query, Txt("Missing 'tool' field")))
        ELSE IF decision.t # "obj" THEN Raise("TypeError", Txt("indices must be integers"))
        ELSE IF decision.obj["tool"].t # "str"
        THEN Raise("AttributeError", Txt("object has no attribute 'upper'"))
        ELSE LET tool == str_upper(decision.obj["tool"].str)
             IN  IF \A i \in DOMAIN valid_tools : valid_tools[i] # tool
                 THEN Ok(_fallback_routing(query, Txt("Invalid tool: ") \o tool))
                 ELSE normalize_decision(decision.obj, tool, query)

\* A log line that cannot format any decision.
log_raises(d) == Raise("TypeError", Txt("unsupported format string"))

\* The logger.info call of lines 85-89: {confidence:.2f} and reasoning[:100].
log_routing_decision(d) ==
    IF d["confidence"].t # "num" THEN Raise("TypeError", Txt("unsupported format string"))
    ELSE IF d["reasoning"].t \notin {"str", "list"} THEN Raise("TypeError", Txt("object is not subscriptable"))
    ELSE Ok(d)

\* Lines 82-91 of route: validate what was parsed, then log it.
validate_parsed(parsed, query) ==
    IF ~parsed.ok THEN parsed ELSE _validate_routing_decision(parsed.val, query)

log_validated(validated) ==
    IF ~validated.ok THEN validated ELSE log_routing_decision(validated.val)

\* The try block of RouterAgent.route (lines 66-91) for one outcome of llm.invoke:
\*   [k |-> "raise", err |-> e], [k |-> "content", text |-> segments],
\*   [k |-> "other"] (a reply whose content is not a string).
route_try(query, llm) ==
    IF llm.k = "raise" THEN Raise("Exception", llm.err)
    ELSE IF llm.k = "other" THEN Raise("AttributeError", Txt("object has no attribute 'strip'"))
    ELSE log_validated(validate_parsed(_parse_routing_response(llm.text), query))

\* A route without its except clause: the exception leaves route.
route_uncaught(tried, query) == tried

\* Lines 93-96: `except Exception` turns every exception of the try block into a
\* fallback decision.
route_except(tried, query) ==
    IF tried.ok THEN tried ELSE Ok(_fallback_routing(query, tried.err))

\* RouterAgent.route on an initialized router.
route(query, llm) == route_except(route_try(query, llm), query)

\* The `return self._fallback_routing(...)` statements _validate_routing_decision
\* reaches for one parsed value (lines 158, 166, 196), as a list of calls.
validation_calls(decision, query) ==
    LET has == has_tool_key(decision)
        tool == str_upper(decision.obj["tool"].str)
        filled == fill_defaults(decision.obj, tool)
        clamped == clamp_confidence(filled, py_float(filled["confidence"]))
    IN  IF ~has.ok THEN <<>>
        ELSE IF ~has.val THEN <<"_fallback_routing">>
        ELSE IF decision.t # "obj" THEN <<>>
        ELSE IF decision.obj["tool"].t # "str" THEN <<>>
        ELSE IF \A i \in DOMAIN valid_tools : valid_tools[i] # tool THEN <<"_fallback_routing">>
        ELSE IF tool # MULTIPLE THEN <<>>
        ELSE IF ~clamped.ok THEN <<>>
        ELSE IF filter_tools(ensure_tools(clamped.val, query)["tools"].items) = Ok(<<>>)
        THEN <<"_fallback_routing">>
        ELSE <<>>

\* The calls of the try block (lines 66-91): self.llm.invoke once (line 76), then
\* whatever validation calls when parsing gave it a value.
try_calls(parsed, query) ==
    <<"llm.invoke">> \o (IF parsed.ok THEN validation_calls(parsed.val, query) ELSE <<>>)

\* The call of the except clause (line 96).
except_calls(tried) == IF tried.ok THEN <<>> ELSE <<"_fallback_routing">>

\* The calls one route(query) makes to the language model and to _fallback_routing.
route_calls(query, llm) ==
    try_calls(IF llm.k = "content" THEN _parse_routing_response(llm.text)
              ELSE Raise("Exception", <<>>), query)
    \o except_calls(route_try(query, llm))

\* ------------------------------------ database_service.py: DatabaseService

\* text.split(sep) for a one-character separator.
RECURSIVE str_split(_, _)
str_split(text, sep) ==
    IF \A i \in DOMAIN text : text[i] # sep THEN <<text>>
    ELSE LET at == CHOOSE i \in DOMAIN text : text[i] = sep /\ \A j \in 1..(i - 1) : text[j] # sep
         IN  <<SubSeq(text, 1, at - 1)>> \o str_split(SubSeq(text, at + 1, Len(text)), sep)

\* text.split()[0] of a text that is not blank: the first run of non-blank characters.
first_token(text) ==
    LET lo == CHOOSE i \in DOMAIN text : ~IsSpace(text[i]) /\ \A j \in 1..(i - 1) : IsSpace(text[j])
        hi == CHOOSE i \in lo..Len(text) :
                  /\ \A j \in lo..i : ~IsSpace(text[j])
                  /\ i = Len(text) \/ IsSpace(text[i + 1])
    IN  SubSeq(text, lo, hi)

\* text.strip(chars), text.rstrip(chars), text.count(ch), text.endswith(suffix),
\* text.startswith(prefix)
str_rstrip_chars(text, chars) ==
    LET keep == {i \in DOMAIN text : text[i] \notin chars}
    IN  IF keep = {} THEN <<>>
        ELSE SubSeq(text, 1, CHOOSE i \in keep : \A j \in keep : j <= i)
str_strip_chars(text, chars) ==
    LET keep == {i \in DOMAIN text : text[i] \notin chars}
    IN  IF keep = {} THEN <<>>
        ELSE SubSeq(text, CHOOSE i \in keep : \A j \in keep : i <= j,
                          CHOOSE i \in keep : \A j \in keep : j <= i)
str_rstrip(text) == str_rstrip_chars(text, {ch \in Range(text) : IsSpace(ch)})
str_count(text, ch) == Cardinality({i \in DOMAIN text : text[i] = ch})
str_endswith(text, suffix) ==
    Len(suffix) <= Len(text) /\ SubSeq(text, Len(text) - Len(suffix) + 1, Len(text)) = suffix
str_startswith(text, prefix) ==
    Len(prefix) <= Len(text) /\ SubSeq(text, 1, Len(prefix)) = prefix

\* The regular expressions validate_query uses are a literal, or a literal between
\* two \b.  \w is a letter, a digit or the underscore; \b is a place with \w on
\* exactly one side.
BSLASH_B == Sym(<<"backslash">>) \o Lat(<<"b">>)
IsWordChar(ch) == ch.s \in {"lat", "cyr"} \/ IsDigit(ch) \/ (ch.s = "sym" /\ ch.c = "_")
word_boundary(text, p) ==
    (p >= 1 /\ IsWordChar(text[p])) # (p < Len(text) /\ IsWordChar(text[p + 1]))
re_search_literal(lit, text) == str_in(lit, text)
re_search_word(lit, text) ==
    \E i \in 0..(Len(text) - Len(lit)) :
        /\ SubSeq(text, i + 1, i + Len(lit)) = lit
        /\ word_boundary(text, i)
        /\ word_boundary(text, i + Len(lit))
\* A search that ignores word boundaries.
re_search_anywhere(pattern, text) ==
    re_search_literal(str_strip_chars(pattern, Range(BSLASH_B)), text)

re_search(pattern, text) ==
    IF Len(pattern) > 4 /\ str_startswith(pattern, BSLASH_B) /\ str_endswith(pattern, BSLASH_B)
    THEN re_search_word(SubSeq(pattern, 3, Len(pattern) - 2), text)
    ELSE re_search_literal(pattern, text)

\* The SQL words of lines 193-196 and of the default configuration.
SELECT == str_upper(Lat(<<"s", "e", "l", "e", "c", "t">>))
DELETE == str_upper(Lat(<<"d", "e", "l", "e", "t", "e">>))
DROP == str_upper(Lat(<<"d", "r", "o", "p">>))
TRUNCATE == str_upper(Lat(<<"t", "r", "u", "n", "c", "a", "t", "e">>))
ALTER == str_upper(Lat(<<"a", "l", "t", "e", "r">>))
CREATE == str_upper(Lat(<<"c", "r", "e", "a", "t", "e">>))
INSERT == str_upper(Lat(<<"i", "n", "s", "e", "r", "t">>))
UPDATE == str_upper(Lat(<<"u", "p", "d", "a", "t", "e">>))
EXECUTE == str_upper(Lat(<<"e", "x", "e", "c", "u", "t", "e">>))
EXEC == str_upper(Lat(<<"e", "x", "e", "c">>))
GRANT == str_upper(Lat(<<"g", "r", "a", "n", "t">>))
REVOKE == str_upper(Lat(<<"r", "e", "v", "o", "k", "e">>))

DenyList == <<DELETE, DROP, TRUNCATE, ALTER, CREATE, INSERT, UPDATE, EXECUTE, EXEC, GRANT, REVOKE>>
dangerous_commands == [i \in DOMAIN DenyList |-> BSLASH_B \o DenyList[i] \o BSLASH_B]
dangerous_patterns == <<Lat(<<"x", "p">>) \o Sym(<<"_">>), Lat(<<"s", "p">>) \o Sym(<<"_">>)>>
SEMI == Sym(<<";">>)
COMMA == Sym(<<",">>)

\* Settings.allowed_sql_ops_list (config.py 78-81) for a value of allowed_sql_operations.
allowed_sql_ops_list(allowed_sql_operations) ==
    LET ops == str_split(allowed_sql_operations, COMMA[1])
    IN  [i \in DOMAIN ops |-> str_upper(str_strip(ops[i]))]

in_list(x, list) == \E i \in DOMAIN list : list[i] = x

\* The (is_valid, error_message) tuple validate_query returns.
Verdict(is_valid, msg) == [is_valid |-> is_valid, msg |-> msg]

\* A check 4 that only counts the semicolons.
check_semicolons_counted(query_stripped) ==
    IF str_count(query_stripped, SEMI[1]) > 1
    THEN Verdict(FALSE, Txt("Multiple SQL statements are not allowed"))
    ELSE Verdict(TRUE, Txt("Query is valid"))

\* Check 4 (lines 217-226): the semicolons of the stripped query.
check_semicolons(query_stripped) ==
    IF str_count(query_stripped, SEMI[1]) > 1
    THEN Verdict(FALSE, Txt("Multiple SQL statements are not allowed"))
    ELSE IF str_count(query_stripped, SEMI[1]) = 1 /\ ~str_endswith(str_rstrip(query_stripped), SEMI)
    THEN Verdict(FALSE, Txt("Multiple SQL statements are not allowed"))
    ELSE Verdict(TRUE, Txt("Query is valid"))

\* Check 3 (lines 207-215): the patterns xp_ and sp_ searched in the upper-cased query.
check_patterns(query_stripped, query_upper) ==
    IF \E i \in DOMAIN dangerous_patterns : re_search(dangerous_patterns[i], query_upper)
    THEN Verdict(FALSE, Txt("Dangerous pattern '")
                        \o dangerous_patterns[CHOOSE i \in DOMAIN dangerous_patterns :
                               /\ re_search(dangerous_patterns[i], query_upper)
                               /\ \A j \in 1..(i - 1) : ~re_search(dangerous_patterns[j], query_upper)]
                        \o Txt("' detected in query"))
    ELSE check_semicolons(query_stripped)

\* The command a pattern names: pattern.strip(r'\b').strip('\\') (line 202).
pattern_cmd(pattern) == str_strip_chars(str_strip_chars(pattern, Range(BSLASH_B)), {BSLASH_B[1]})

\* The patterns of dangerous_commands that match and name a command not allowed.
hits(query_upper, allowed_ops) ==
    {i \in DOMAIN dangerous_commands :
        /\ re_search(dangerous_commands[i], query_upper)
        /\ ~in_list(pattern_cmd(dangerous_commands[i]), allowed_ops)}

\* Check 2 (lines 190-205): the first such pattern, in list order, rejects.
check_commands(query_stripped, query_upper, allowed_ops) ==
    IF hits(query_upper, allowed_ops) # {}
    THEN Verdict(FALSE, Txt("Dangerous operation '")
                        \o pattern_cmd(dangerous_commands[
                               CHOOSE i \in hits(query_upper, allowed_ops) :
                                   \A j \in hits(query_upper, allowed_ops) : i <= j])
                        \o Txt("' detected in query. Only ") \o str_join(COMMA \o SP, allowed_ops)
                        \o Txt(" operations are permitted."))
    ELSE check_patterns(query_stripped, query_upper)

\* A validator without check 1.
check_first_word_skipped(query_stripped, allowed_ops) ==
    check_commands(query_stripped, str_upper(query_stripped), allowed_ops)

\* Check 1 (lines 183-188): the first word, upper-cased, must be an allowed operation.
check_first_word(query_stripped, allowed_ops) ==
    IF ~in_list(str_upper(first_token(query_stripped)), allowed_ops)
    THEN Verdict(FALSE, Txt("Query must start with one of: ") \o str_join(COMMA \o SP, allowed_ops)
                        \o Txt(". Got: ") \o str_upper(first_token(query_stripped)))
    ELSE check_commands(query_stripped, str_upper(query_stripped), allowed_ops)

\* DatabaseService.validate_query under the configured allowed operations.
validate_query(query, allowed_ops) ==
    IF str_strip(query) = <<>> THEN Verdict(FALSE, Txt("Query cannot be empty"))
    ELSE check_first_word(str_strip(query), allowed_ops)

\* DatabaseService.execute_query (lines 57-85): the query goes to conn.execute as it
\* is.  db is what the database does with it: [k |-> "rows", n |-> row count] or
\* [k |-> "error", msg |-> text of the SQLAlchemyError].  Yields the outcome and the
\* queries the connection was given.
db_execute_query(query, db) ==
    [out |-> IF db.k = "rows" THEN Ok(db.n) ELSE Raise("Exception", Txt("Database error: ") \o db.msg),
     executed |-> <<query>>]

\* --------------------------------------------------- sql_agent.py: SQLAgent

FENCE == Sym(<<"backtick", "backtick", "backtick">>)
FENCE_SQL == FENCE \o Lat(<<"s", "q", "l">>)
NL == Sym(<<"\n">>)

\* text.find(sub, start)
str_find_from(sub, text, start) ==
    IF \E i \in start..(Len(text) - Len(sub)) : SubSeq(text, i + 1, i + Len(sub)) = sub
    THEN CHOOSE i \in start..(Len(text) - Len(sub)) :
            /\ SubSeq(text, i + 1, i + Len(sub)) = sub
            /\ \A j \in start..(i - 1) : SubSeq(text, j + 1, j + Len(sub)) # sub
    ELSE -1

\* text[start:end] for 0 <= start <= len(text); a negative end counts from the end.
py_slice(text, start, end) ==
    IF (IF end < 0 THEN Len(text) + end ELSE end) <= start THEN <<>>
    ELSE SubSeq(text, start + 1, IF end < 0 THEN Len(text) + end ELSE py_min(end, Len(text)))

\* Lines 98-107: the text between the code fences, or the whole response.
unfence(response) ==
    IF str_in(FENCE_SQL, response)
    THEN str_strip(py_slice(response, str_find(FENCE_SQL, response) + 6,
                            str_find_from(FENCE, response, str_find(FENCE_SQL, response) + 6)))
    ELSE IF str_in(FENCE, response)
    THEN str_strip(py_slice(response, str_find(FENCE, response) + 3,
                            str_find_from(FENCE, response, str_find(FENCE, response) + 3)))
    ELSE str_strip(response)

\* Lines 112-119: the first line that starts with SELECT, when the text does not.
first_select_line(sql) ==
    LET lines == str_split(sql, NL[1])
        found == {i \in DOMAIN lines : str_startswith(str_upper(str_strip(lines[i])), SELECT)}
    IN  IF str_startswith(str_upper(sql), SELECT) \/ found = {} THEN sql
        ELSE str_strip(lines[CHOOSE i \in found : \A j \in found : i <= j])

\* SQLAgent._extract_sql
_extract_sql(response) ==
    first_select_line(str_strip(str_rstrip_chars(unfence(response), {SEMI[1]})))

\* SQLAgent.generate_sql on an initialized agent, for one outcome of llm.invoke
\* (line 61); its exception is raised again (line 72).
generate_sql(llm) ==
    IF llm.k = "raise" THEN Raise("Exception", llm.err) ELSE Ok(_extract_sql(llm.text))

\* What one SQLAgent.execute_query call did: the dict it returned, the queries that
\* reached the database, and the calls it made.
SqlOutcome(ret, executed, calls) == [ret |-> ret, executed |-> executed, calls |-> calls]
sql_failure(error, sql_query) == [success |-> FALSE, error |-> error, sql_query |-> sql_query]
sql_success(sql_query, row_count) == [success |-> TRUE, sql_query |-> sql_query, row_count |-> row_count]

\* Lines 157-176: the query is executed; an exception becomes a failure dict.
run_query(sql_query, ran, calls) ==
    IF ran.out.ok
    THEN SqlOutcome(sql_success(sql_query, ran.out.val), ran.executed, calls \o <<"db_service.execute_query">>)
    ELSE SqlOutcome(sql_failure(ran.out.err, Null), ran.executed, calls \o <<"db_service.execute_query">>)

\* An execute_query that runs the query whatever the validator said.
execute_unvalidated(gen, validate, db, allowed_ops) ==
    IF ~gen.ok THEN SqlOutcome(sql_failure(gen.err, Null), <<>>, <<"generate_sql">>)
    ELSE run_query(gen.val, db_execute_query(gen.val, db), <<"generate_sql">>)

\* Lines 141-176 once generate_sql returned or raised.
execute_generated(gen, validate, db, allowed_ops) ==
    IF ~gen.ok THEN SqlOutcome(sql_failure(gen.err, Null), <<>>, <<"generate_sql">>)
    ELSE IF validate /\ ~validate_query(gen.val, allowed_ops).is_valid
    THEN SqlOutcome(sql_failure(validate_query(gen.val, allowed_ops).msg, gen.val), <<>>,
                    <<"generate_sql", "db_service.validate_query">>)
    ELSE run_query(gen.val, db_execute_query(gen.val, db),
                   IF validate THEN <<"generate_sql", "db_service.validate_query">> ELSE <<"generate_sql">>)

\* SQLAgent.execute_query(question, validate) on an initialized agent.
sql_execute_query(validate, llm, db, allowed_ops) ==
    execute_generated(generate_sql(llm), validate, db, allowed_ops)

\* --------------------------------------------------- rag_agent.py: RAGAgent

\* What one agent call did: the dict it returned and the calls it made, in order.
Did(ret, calls) == [ret |-> ret, calls |-> calls]

min_relevance_score == 30

\* Lines 92-97: the similarity of a retrieved document, in hundredths.
similarity(doc) == py_max(0, py_min(100, 100 - doc.distance))

\* Lines 87-122: the documents at or above the threshold, or else retrieved_docs[0].
filter_docs_at(retrieved_docs, min_relevance) ==
    LET idx == SelectIdx(Len(retrieved_docs),
                         {i \in DOMAIN retrieved_docs : similarity(retrieved_docs[i]) >= min_relevance})
    IN  IF idx = <<>> THEN <<retrieved_docs[1]>> ELSE [j \in DOMAIN idx |-> retrieved_docs[idx[j]]]

\* The filter at the default threshold of line 53, as the orchestrator calls it.
filter_docs(retrieved_docs) == filter_docs_at(retrieved_docs, min_relevance_score)

\* RAGAgent._extract_sources: the file names, each once, sorted.  A document's file is
\* a number; file n is named by the n-th name in alphabetical order.
FileName(n) == Txt("doc") \o Sym(<<IF n = 1 THEN "1" ELSE "2">>) \o Txt(".md")
rag_extract_sources(documents) ==
    LET files == {documents[i].file : i \in DOMAIN documents}
        idx == SelectIdx(2, files)
    IN  [j \in DOMAIN idx |-> FileName(idx[j])]

RagNothingFound ==
    Txt("Izvinite, ya ne nashel relevantnoj informacii v dokumentacii dlya otveta na vash vopros.")

\* Lines 124-142: the answer generated from the filtered documents (_generate_answer
\* raises what llm.invoke raises), or the failure of lines 144-151.
rag_answer_from(retrieved_docs, filtered_docs, llm) ==
    IF llm.k = "raise"
    THEN Did([success |-> FALSE,
              answer |-> Txt("Proizoshla oshibka pri obrabotke voprosa: ") \o llm.err,
              sources |-> <<>>],
             <<"rag_service.search", "llm.invoke">>)
    ELSE Did([success |-> TRUE, answer |-> str_strip(llm.text),
              sources |-> rag_extract_sources(filtered_docs),
              retrieved_chunks |-> Len(retrieved_docs), relevant_chunks |-> Len(filtered_docs)],
             <<"rag_service.search", "llm.invoke">>)

\* An answer_question without the `if not retrieved_docs` return of lines 75-81.
answer_question_unchecked(search, llm, min_relevance) ==
    IF search.k = "raise"
    THEN Did([success |-> FALSE,
              answer |-> Txt("Proizoshla oshibka pri obrabotke voprosa: ") \o search.err,
              sources |-> <<>>],
             <<"rag_service.search">>)
    ELSE rag_answer_from(search.docs,
                         IF search.docs = <<>> THEN <<>> ELSE filter_docs_at(search.docs, min_relevance),
                         llm)

\* RAGAgent.answer_question(question, top_k, min_relevance_score) on an initialized
\* agent.  search is what rag_service.search did: [k |-> "docs", docs |-> documents]
\* or [k |-> "raise", err |-> text].
answer_question_at(search, llm, min_relevance) ==
    IF search.k = "raise"
    THEN Did([success |-> FALSE,
              answer |-> Txt("Proizoshla oshibka pri obrabotke voprosa: ") \o search.err,
              sources |-> <<>>],
             <<"rag_service.search">>)
    ELSE IF search.docs = <<>>
    THEN Did([success |-> FALSE, answer |-> RagNothingFound, sources |-> <<>>, retrieved_chunks |-> 0],
             <<"rag_service.search">>)
    ELSE rag_answer_from(search.docs, filter_docs_at(search.docs, min_relevance), llm)

\* The call of orchestrator_service.py line 252, which leaves the threshold at its default.
answer_question(search, llm) == answer_question_at(search, llm, min_relevance_score)

\* ------------------------- search_service.py, web_search_agent.py: web search

\* SearchService._parse_results: the results, the first one carrying Tavily's answer
\* when there is one.
_parse_results(response) ==
    [i \in DOMAIN response.results |->
        IF i = 1 /\ response.answer # <<>>
        THEN [url |-> response.results[i].url, title |-> response.results[i].title,
              tavily_answer |-> response.answer]
        ELSE [url |-> response.results[i].url, title |-> response.results[i].title]]

\* SearchService.search and SearchService.search_news on an initialized service
\* (lines 69-99, 156-176): every exception of the client becomes an empty list.
search(tavily) ==
    IF tavily.k = "raise" THEN Ok(<<>>) ELSE Ok(_parse_results(tavily.response))

\* WebSearchAgent._extract_sources: "title (url)" for every result with a url.
web_extract_sources(results) ==
    LET idx == SelectIdx(Len(results), {i \in DOMAIN results : results[i].url # <<>>})
    IN  [j \in DOMAIN idx |-> results[idx[j]].title \o Sym(<<" ", "(">>) \o results[idx[j]].url \o Sym(<<")">>)]

WebUnavailable ==
    Txt("Veb-poisk nedostupen. Ne nastroen API klyuch dlya Tavily. Poluchite klyuch na https://tavily.com/")
WebNothingFound ==
    Txt("K sozhaleniyu, ya ne nashel relevantnoj informacii v internete po vashemu zaprosu.")
NewsUnavailable == Txt("Poisk novostej nedostupen. Ne nastroen API klyuch dlya Tavily.")
NewsNothingFound(query) ==
    Txt("Ne najdeno novostej po zaprosu '") \o query \o Txt("' za poslednie 7 dnej.")

\* A _generate_answer whose except clause re-raises without looking at Tavily's answer.
web_generate_answer_reraising(search_results, llm) ==
    IF llm.k = "content" THEN Ok(str_strip(llm.text)) ELSE Raise("Exception", llm.err)

\* WebSearchAgent._generate_answer: Tavily's answer stands in when llm.invoke raises.
web_generate_answer(search_results, llm) ==
    IF llm.k = "content" THEN Ok(str_strip(llm.text))
    ELSE IF "tavily_answer" \in DOMAIN search_results[1]
    THEN Ok(Txt("Na osnove poiska: ") \o search_results[1].tavily_answer)
    ELSE Raise("Exception", llm.err)

\* WebSearchAgent._generate_news_summary
_generate_news_summary(llm) ==
    IF llm.k = "content" THEN Ok(str_strip(llm.text)) ELSE Raise("Exception", llm.err)

web_failure(answer) == [success |-> FALSE, answer |-> answer, sources |-> <<>>]

\* Lines 75-109 of search_and_answer, 148-180 of search_news: what is made of the
\* search results; error_prefix and nothing_found are the method's two messages.
web_answer_from(found, generated, error_prefix, nothing_found) ==
    IF ~found.ok
    THEN Did(web_failure(error_prefix \o found.err), <<"search_service.search">>)
    ELSE IF found.val = <<>>
    THEN Did(web_failure(nothing_found), <<"search_service.search">>)
    ELSE IF ~generated.ok
    THEN Did(web_failure(error_prefix \o generated.err), <<"search_service.search", "llm.invoke">>)
    ELSE Did([success |-> TRUE, answer |-> generated.val,
              sources |-> web_extract_sources(found.val), found |-> Len(found.val)],
             <<"search_service.search", "llm.invoke">>)

\* WebSearchAgent.search_and_answer on an initialized agent; search_initialized is
\* search_service._initialized (false without an API key).
search_and_answer(search_initialized, tavily, llm) ==
    IF ~search_initialized THEN Did(web_failure(WebUnavailable), <<>>)
    ELSE web_answer_from(search(tavily),
                         IF tavily.k = "raise" \/ tavily.response.results = <<>> THEN Null
                         ELSE web_generate_answer(_parse_results(tavily.response), llm),
                         Txt("Proizoshla oshibka pri poiske v internete: "), WebNothingFound)

\* WebSearchAgent.search_news
search_news(query, search_initialized, tavily, llm) ==
    IF ~search_initialized THEN Did(web_failure(NewsUnavailable), <<>>)
    ELSE web_answer_from(search(tavily), _generate_news_summary(llm),
                         Txt("Proizoshla oshibka pri poiske novostej: "), NewsNothingFound(query))

\* Lines 297-298 of _execute_web_search_agent
is_news_query(query) ==
    any_kw_in(<<kw_novosti, kw_poslednie \o SP \o kw_novosti>>, str_lower(query))

\* Lines 301-304: the method the wrapper calls.
web_search(query, search_initialized, tavily, llm) ==
    IF is_news_query(query) THEN search_news(query, search_initialized, tavily, llm)
    ELSE search_and_answer(search_initialized, tavily, llm)

\* ---------------------------------- orchestrator_service.py: agent calls

NL2 == Sym(<<"\n", "\n">>)

\* What asyncio.gather(return_exceptions=True) and the agents hand back: a result dict.
AgentResult(success, answer, tool, tools_used, sources) ==
    [success |-> success, answer |-> answer, tool |-> tool,
     tools_used |-> tools_used, sources |-> sources]

\* SQLAgent.format_results (sql_agent.py 178-230) for a result of row_count rows and
\* one outcome of llm.invoke.
format_results(row_count, llm) ==
    IF row_count = 0 THEN Txt("Zapros ne vernul rezul'tatov.")
    ELSE IF llm.k = "content" THEN str_strip(llm.text)
    ELSE Txt("Najdeno N zapisej. Pervye rezul'taty:")

\* OrchestratorService._execute_sql_agent.  env: init_ok (whether sql_agent.initialize()
\* succeeds when it is needed), ret (what sql_agent.execute_query returns), llm (the
\* outcome of the formatting call).  Yields the result and the agent's _initialized flag.
_execute_sql_agent(query, initialized, env) ==
    IF ~initialized /\ ~env.init_ok
    THEN [res |-> AgentResult(FALSE, Txt("Oshibka SQL Agent: ") \o env.init_err, SQL, <<>>, <<>>),
          initialized |-> FALSE]
    ELSE IF env.ret.success
    THEN [res |-> AgentResult(TRUE, format_results(env.ret.row_count, env.llm), SQL,
                              <<[tool_type |-> "sql", found |-> env.ret.row_count]>>,
                              <<Txt("database: PostgreSQL")>>),
          initialized |-> TRUE]
    ELSE [res |-> AgentResult(FALSE, Txt("SQL Agent: ") \o env.ret.error, SQL, <<>>, <<>>),
          initialized |-> TRUE]

\* The calls of _execute_sql_agent lines 201-209: those of execute_query, then the
\* llm.invoke of format_results, which is reached when there are rows (sql_agent.py
\* 195-222).
sql_agent_calls(did) ==
    did.calls \o (IF did.ret.success /\ did.ret.row_count > 0 THEN <<"llm.invoke">> ELSE <<>>)

\* OrchestratorService._execute_rag_agent.  env.ret is what rag_agent.answer_question returns.
_execute_rag_agent(query, initialized, env) ==
    IF ~initialized /\ ~env.init_ok
    THEN [res |-> AgentResult(FALSE, Txt("Oshibka RAG Agent: ") \o env.init_err, RAG, <<>>, <<>>),
          initialized |-> FALSE]
    ELSE IF env.ret.success
    THEN [res |-> AgentResult(TRUE, env.ret.answer, RAG,
                              <<[tool_type |-> "rag", found |-> env.ret.relevant_chunks]>>,
                              [i \in DOMAIN env.ret.sources |-> Txt("documentation: ") \o env.ret.sources[i]]),
          initialized |-> TRUE]
    ELSE [res |-> AgentResult(FALSE, env.ret.answer, RAG, <<>>, <<>>),
          initialized |-> TRUE]

\* OrchestratorService._execute_web_search_agent.  env.ret is what search_news (for a
\* news query) or search_and_answer returned; at most three sources are kept.
_execute_web_search_agent(query, initialized, env) ==
    IF ~initialized /\ ~env.init_ok
    THEN [res |-> AgentResult(FALSE, Txt("Oshibka Web Search Agent: ") \o env.init_err, WEB_SEARCH, <<>>, <<>>),
          initialized |-> FALSE]
    ELSE IF env.ret.success
    THEN LET top == SubSeq(env.ret.sources, 1, py_min(3, Len(env.ret.sources)))
         IN  [res |-> AgentResult(TRUE, env.ret.answer, WEB_SEARCH,
                                  <<[tool_type |-> "web_search", found |-> env.ret.found]>>,
                                  [i \in DOMAIN top |-> Txt("web: ") \o top[i]]),
              initialized |-> TRUE]
    ELSE [res |-> AgentResult(FALSE, env.ret.answer, WEB_SEARCH, <<>>, <<>>),
          initialized |-> TRUE]

\* A selection that takes the fallback branch of line 133 for every tool.
single_agent_fallback_only(tool) == RAG

\* The agent a tool name selects in _execute_single_agent (lines 127-136): RAG for
\* every name that is neither SQL nor WEB_SEARCH.
single_agent_for(tool) ==
    IF tool = SQL THEN SQL
    ELSE IF tool = RAG THEN RAG
    ELSE IF tool = WEB_SEARCH THEN WEB_SEARCH
    ELSE RAG

\* The wrappers with the lazy initialization ahead of the try block: what
\* initialize() raises leaves the wrapper.
execute_agent_init_outside_try(agent, query, initialized, env) ==
    IF ~initialized /\ ~env.init_ok
    THEN [res |-> Raise("Exception", env.init_err), initialized |-> FALSE]
    ELSE IF agent = SQL THEN _execute_sql_agent(query, initialized, env)
    ELSE IF agent = RAG THEN _execute_rag_agent(query, initialized, env)
    ELSE _execute_web_search_agent(query, initialized, env)

\* The wrapper of an agent, as _execute_single_agent and the tool_map of
\* _execute_multiple_agents select it.
execute_agent(agent, query, initialized, env) ==
    IF agent = SQL THEN _execute_sql_agent(query, initialized, env)
    ELSE IF agent = RAG THEN _execute_rag_agent(query, initialized, env)
    ELSE _execute_web_search_agent(query, initialized, env)

\* Lines 161-169: one task per listed tool that names an agent, in list order.
build_tasks(tools) ==
    LET idx == SelectIdx(Len(tools), {i \in DOMAIN tools : tools[i].t = "str" /\ tools[i].str \in ConcreteTools})
    IN  [j \in DOMAIN idx |-> tools[idx[j]].str]

\* A gather that appends results as they complete.
gather_as_completed(results, i, r) ==
    [results EXCEPT ![CHOOSE j \in DOMAIN results :
                        results[j] = Null /\ \A k \in DOMAIN results : k < j => results[k] # Null] = r]

\* asyncio.gather: the result of the i-th awaitable is the i-th element of the list,
\* whenever it completes.
gather_store(results, i, r) == [results EXCEPT ![i] = r]

\* A filter that drops exceptions only.
valid_results_any(results) ==
    LET idx == SelectIdx(Len(results), {i \in DOMAIN results : results[i].ok})
    IN  [j \in DOMAIN idx |-> results[idx[j]].val]

\* Lines 174-180: exceptions and unsuccessful results are dropped, order kept.
valid_results(results) ==
    LET idx == SelectIdx(Len(results), {i \in DOMAIN results : results[i].ok /\ results[i].val.success})
    IN  [j \in DOMAIN idx |-> results[idx[j]].val]

RECURSIVE str_rfind_end(_, _, _)
str_rfind_end(sub, text, i) ==
    IF i < 0 THEN -1
    ELSE IF SubSeq(text, i + 1, i + Len(sub)) = sub THEN i
    ELSE str_rfind_end(sub, text, i - 1)

\* A label strip that splits at the last "] " (rsplit).
strip_label_last(ans) ==
    LET at == str_rfind_end(Sym(<<"]", " ">>), ans, Len(ans) - 2)
    IN  IF at = -1 THEN ans ELSE SubSeq(ans, at + 3, Len(ans))

\* `ans.split("] ", 1)[-1] if "] " in ans else ans`
strip_label(ans) ==
    LET sep == Sym(<<"]", " ">>)
        at == str_find(sep, ans)
    IN  IF at = -1 THEN ans ELSE SubSeq(ans, at + 3, Len(ans))

\* OrchestratorService._synthesize_answer for one outcome of self.llm.invoke.  Yields the
\* answer, whether the language model was called, and the answers put in its prompt.
_synthesize_answer(query, answers, llm) ==
    IF Len(answers) = 1
    THEN [answer |-> strip_label(answers[1]), llm_called |-> FALSE, llm_raised |-> FALSE, prompt |-> <<>>]
    ELSE IF llm.k = "content"
    THEN [answer |-> str_strip(llm.text), llm_called |-> TRUE, llm_raised |-> FALSE, prompt |-> answers]
    ELSE [answer |-> str_join(NL2, [i \in DOMAIN answers |-> strip_label(answers[i])]),
          llm_called |-> TRUE, llm_raised |-> TRUE, prompt |-> answers]

RECURSIVE Flatten(_)
Flatten(seqs) == IF Len(seqs) = 0 THEN <<>> ELSE seqs[1] \o Flatten(Tail(seqs))

\* Lines 365-373: the labelled non-empty answers of the results, in their order.
labelled_answers(results) ==
    LET idx == SelectIdx(Len(results), {i \in DOMAIN results : results[i].answer # <<>>})
    IN  [j \in DOMAIN idx |->
            Sym(<<"[">>) \o results[idx[j]].tool \o Sym(<<"]", " ">>) \o results[idx[j]].answer]

Orderings(S) == {f \in [1..Cardinality(S) -> S] : Range(f) = S}

\* OrchestratorService._aggregate_results; `sources` is the order list(set(...)) happens
\* to give.
_aggregate_results(query, results, llm, sources) ==
    LET synth == _synthesize_answer(query, labelled_answers(results), llm)
    IN  [result |-> [success |-> TRUE,
                     answer |-> synth.answer,
                     tools_used |-> Flatten([i \in DOMAIN results |-> results[i].tools_used]),
                     sources |-> sources],
         llm_called |-> synth.llm_called,
         llm_raised |-> synth.llm_raised,
         prompt |-> synth.prompt]

all_sources(results) == Range(Flatten([i \in DOMAIN results |-> results[i].sources]))

\* Lines 182-188.
no_results == [success |-> FALSE,
               answer |-> Txt("Ne udalos' poluchit' rezul'taty ni ot odnogo agenta."),
               tools_used |-> <<>>, sources |-> <<>>]

\* Lines 102-110: what process_query returns for an exception caught at the top level.
error_result(err) == [success |-> FALSE,
                      answer |-> Txt("Proizoshla oshibka pri obrabotke zaprosa: ") \o err,
                      tools_used |-> <<>>, sources |-> <<>>, error |-> err]

\* Line 96: result["routing_decision"] = routing_decision
attach_routing(result, decision) == setitem(result, "routing_decision", decision)

\* Lines 80-83: the logger.info call reads decision['tool'] and formats
\* decision['confidence'] with :.2f.
log_routing(decision) ==
    IF "tool" \notin DOMAIN decision THEN Raise("KeyError", Txt("'tool'"))
    ELSE IF "confidence" \notin DOMAIN decision THEN Raise("KeyError", Txt("'confidence'"))
    ELSE IF decision["confidence"].t # "num" THEN Raise("TypeError", Txt("unsupported format string"))
    ELSE Ok(decision)

\* OrchestratorService.initialize (lines 29-45) and RouterAgent.initialize (31-44):
\* env.router_ok, env.llm_ok say whether the two get_llm calls succeed.
initialize(router_init, env) ==
    IF ~router_init /\ ~env.router_ok
    THEN [ok |-> FALSE, router |-> FALSE, orch |-> FALSE]
    ELSE IF ~env.llm_ok
    THEN [ok |-> FALSE, router |-> TRUE, orch |-> FALSE]
    ELSE [ok |-> TRUE, router |-> TRUE, orch |-> TRUE]

\* ------------------------------------------------------------- inputs

MaxTools == 4

q_skolko == Cap(kw_skolko) \o SP \o Lat(<<"x">>)
q_news == kw_news
q_hi == Lat(<<"h", "i">>)
q_count_novosti == kw_count \o SP \o Cap(kw_novosti)
q_discount == Lat(<<"d", "i", "s">>) \o kw_count
q_chto_takoe == Cap(kw_chto_takoe) \o SP \o Lat(<<"x">>)

Queries == {q_skolko, q_news, q_hi, q_count_novosti, q_discount, q_chto_takoe}

ErrTimeout == Txt("timeout")

j_sql == Str(Lat(<<"s", "q", "l">>))
j_rag == Str(Cap(Lat(<<"r", "a", "g">>)))
j_web == Str(Lat(<<"w", "e", "b">>) \o Sym(<<"_">>) \o Lat(<<"s", "e", "a", "r", "c", "h">>))
j_foo == Str(Lat(<<"f", "o", "o">>))
j_tool == Str(Lat(<<"t", "o", "o", "l">>))

BaseFields == [reasoning |-> Str(Txt("because")), confidence |-> Num(90), query_type |-> Str(Txt("kind"))]
WithTool(tool) == setitem(BaseFields, "tool", tool)
WithTools(tool, tools) == setitem(WithTool(tool), "tools", tools)
Without(d, k) == [x \in DOMAIN d \ {k} |-> d[x]]

ToolValues == {j_sql, Str(SQL), j_rag, j_web, Str(NONE), j_foo, Null, Num(100)}

ToolsLists ==
    {tl \in { <<>>, <<j_sql, Str(RAG)>>, <<Str(RAG), j_sql>>, <<Str(SQL), Str(RAG), Str(WEB_SEARCH)>>,
              <<j_web, Str(SQL)>>, <<j_foo>>, <<j_foo, Str(RAG)>>, <<Str(SQL), Num(500)>>,
              <<Str(RAG), Str(RAG)>>, <<j_foo, Str(WEB_SEARCH), j_foo, j_rag>>,
              <<j_web, Str(WEB_SEARCH), j_web, Str(WEB_SEARCH)>> } : Len(tl) <= MaxTools}

ReasoningValues == {Null, Str(<<>>), Num(100), List(<<Str(Txt("a"))>>)}
ConfidenceValues == {Num(150), Num(0 - 20), Str(Sym(<<"0", ".", "9">>)), Str(Lat(<<"h", "i", "g", "h">>)),
                     Null, BigInt}

\* The JSON values the classifier may produce.
JsonValues ==
    {Obj(WithTool(t)) : t \in ToolValues}
    \cup {Obj(BaseFields)}
    \cup {Obj(WithTools(Str(MULTIPLE), List(tl))) : tl \in ToolsLists}
    \cup {Obj(WithTool(Str(MULTIPLE))), Obj(WithTools(Str(MULTIPLE), Null)),
          Obj(WithTools(Str(str_lower(MULTIPLE)), List(<<j_sql, Str(RAG)>>)))}
    \cup {Obj(setitem(WithTool(j_sql), "reasoning", r)) : r \in ReasoningValues}
    \cup {Obj(setitem(WithTool(j_sql), "confidence", c)) : c \in ConfidenceValues}
    \cup {Obj(Without(WithTool(j_sql), k)) : k \in {"reasoning", "confidence", "query_type"}}
    \cup {Null, Num(100), List(<<j_tool>>), Str(Lat(<<"t", "o", "o", "l", "s">>))}

Seg(kind) == [seg |-> kind]
Json(v) == [seg |-> "json", val |-> v]

\* The ways the reply text wraps one JSON value.
Wrappings(v) ==
    { <<Json(v)>>,
      <<Seg("ws"), Json(v), Seg("ws")>>,
      <<Seg("fence_json"), Seg("ws"), Json(v), Seg("ws"), Seg("fence")>>,
      <<Seg("prose"), Seg("fence"), Json(v), Seg("fence"), Seg("prose")>>,
      <<Seg("prose"), Seg("ws"), Json(v), Seg("ws"), Seg("prose")>>,
      <<Seg("fence_json"), Seg("ws"), Json(v)>> }

\* The outcomes of the classifier's llm.invoke.
RouterReplies ==
    {[k |-> "raise", err |-> e] : e \in {<<>>, ErrTimeout, kw_news}}
    \cup {[k |-> "other"]}
    \cup {[k |-> "content", text |-> <<Json(v)>>] : v \in JsonValues}
    \cup {[k |-> "content", text |-> w] : w \in Wrappings(Obj(WithTool(j_rag)))}
    \cup {[k |-> "content", text |-> <<>>], [k |-> "content", text |-> <<Seg("prose")>>]}

\* What the agents' collaborators can do during one wrapper call.  init_ok matters
\* only while the agent is not initialized.
InitOutcomes(initialized) == IF initialized THEN {TRUE} ELSE {TRUE, FALSE}

FormatReplies == {[k |-> "raise"],
                  [k |-> "content", text |-> SP \o Lat(<<"a">>) \o Sym(<<"]", " ">>) \o Lat(<<"b">>) \o SP]}

SqlEnvs(initialized) ==
    {[init_ok |-> TRUE, init_err |-> <<>>, ret |-> [success |-> TRUE, row_count |-> 0], llm |-> [k |-> "raise"]],
     [init_ok |-> TRUE, init_err |-> <<>>, ret |-> [success |-> FALSE, error |-> Txt("bad sql")], llm |-> [k |-> "raise"]]}
    \cup {[init_ok |-> TRUE, init_err |-> <<>>, ret |-> [success |-> TRUE, row_count |-> 2], llm |-> f] : f \in FormatReplies}
    \cup (IF initialized THEN {}
          ELSE {[init_ok |-> FALSE, init_err |-> ErrTimeout, ret |-> <<>>, llm |-> [k |-> "raise"]]})

RagEnvs(initialized) ==
    {[init_ok |-> TRUE, init_err |-> <<>>,
      ret |-> [success |-> TRUE, answer |-> a, sources |-> <<Txt("guide.md")>>, relevant_chunks |-> 1]] :
        a \in {Txt("doc answer"), <<>>}}
    \cup {[init_ok |-> TRUE, init_err |-> <<>>, ret |-> [success |-> FALSE, answer |-> Txt("Nichego ne najdeno")]]}
    \cup (IF initialized THEN {} ELSE {[init_ok |-> FALSE, init_err |-> ErrTimeout, ret |-> <<>>]})

WebEnvs(initialized) ==
    {[init_ok |-> TRUE, init_err |-> <<>>,
      ret |-> [success |-> TRUE, answer |-> Txt("web answer"), sources |-> <<Txt("u1")>>, found |-> 1]],
     [init_ok |-> TRUE, init_err |-> <<>>, ret |-> [success |-> FALSE, answer |-> Txt("Poisk nedostupen")]]}
    \cup (IF initialized THEN {} ELSE {[init_ok |-> FALSE, init_err |-> ErrTimeout, ret |-> <<>>]})

AgentEnvs(agent, initialized) ==
    IF agent = SQL THEN SqlEnvs(initialized)
    ELSE IF agent = RAG THEN RagEnvs(initialized)
    ELSE WebEnvs(initialized)

\* The outcomes of the synthesis llm.invoke.
SynthReplies == {[k |-> "raise"], [k |-> "content", text |-> SP \o Txt("merged") \o SP]}

\* Texts handed to validate_query: blank ones, and a first word, a rest and an end
\* put together.
w_select == Lat(<<"s", "e", "l", "e", "c", "t">>)
w_drop == Lat(<<"d", "r", "o", "p">>)
w_insert == Lat(<<"i", "n", "s", "e", "r", "t">>)
w_created_at == Lat(<<"c", "r", "e", "a", "t", "e", "d">>) \o Sym(<<"_">>) \o Lat(<<"a", "t">>)
w_xp_a == Lat(<<"x", "p">>) \o Sym(<<"_">>) \o Lat(<<"a">>)
w_sp_b == str_upper(Lat(<<"s", "p">>)) \o Sym(<<"_">>) \o Lat(<<"b">>)
w_t == Lat(<<"t">>)
ONE == Sym(<<"1">>)

SqlBlanks == {<<>>, SP, NL \o Sym(<<"\t">>)}
SqlLeads == {<<>>, SP \o NL}
SqlFirsts == {SELECT, w_select, Cap(w_select), DELETE, w_drop, INSERT, SELECT \o Sym(<<"*">>)}
SqlRests ==
    {SP \o ONE,
     SP \o w_created_at,
     SP \o w_drop \o SP \o w_t,
     SP \o DROP \o Sym(<<"_">>) \o w_t,
     SP \o Sym(<<"(">>) \o DELETE \o Sym(<<")">>),
     SP \o w_drop \o ONE,
     SP \o ONE \o SP \o w_insert,
     SP \o w_xp_a,
     SP \o w_sp_b,
     SP \o Sym(<<"'">>) \o w_t \o SEMI \o w_t \o Sym(<<"'">>),
     SP \o ONE \o SEMI \o SP \o w_select \o SP \o ONE,
     SP \o ONE \o SEMI \o SP \o w_drop \o SP \o w_xp_a}
SqlEnds == {<<>>, SEMI, SEMI \o SP \o NL, SEMI \o SEMI}
SqlTexts ==
    SqlBlanks \cup {lead \o first \o rest \o end :
                        lead \in SqlLeads, first \in SqlFirsts, rest \in SqlRests, end \in SqlEnds}

\* The values of the setting allowed_sql_operations: the default (config.py line 62)
\* and one that also allows INSERT.
AllowedSqlOperations == {SELECT, w_select \o COMMA \o SP \o w_insert}

\* What the database does with a query.
DbOutcomes == {[k |-> "rows", n |-> 0], [k |-> "rows", n |-> 2],
               [k |-> "error", msg |-> Txt("syntax error")]}

\* The outcomes of the SQL generation llm.invoke: an exception, or a text around a query.
GeneratedQueries ==
    {w_select \o SP \o ONE,
     w_select \o SP \o w_created_at \o SEMI,
     DELETE \o SP \o w_t,
     w_select \o SP \o ONE \o SEMI \o SP \o w_drop \o SP \o w_t,
     SELECT \o SP \o w_xp_a,
     Lat(<<"o", "k">>) \o NL \o SP \o w_select \o SP \o w_drop \o SP \o w_t,
     <<>>}
SqlWrappings(q) ==
    {q, SP \o q \o NL,
     FENCE_SQL \o NL \o q \o NL \o FENCE,
     Lat(<<"o", "k">>) \o SP \o FENCE \o q \o FENCE \o SP \o w_drop,
     FENCE_SQL \o SP \o q}
SqlReplies ==
    {[k |-> "raise", err |-> ErrTimeout]}
    \cup {[k |-> "content", text |-> w] : w \in UNION {SqlWrappings(q) : q \in GeneratedQueries}}

\* What rag_service.search does: it raises, or returns documents (distance in
\* hundredths, nearest first).
RagSearches ==
    {[k |-> "raise", err |-> ErrTimeout],
     [k |-> "docs", docs |-> <<>>],
     [k |-> "docs", docs |-> <<[distance |-> 20, file |-> 1]>>],
     [k |-> "docs", docs |-> <<[distance |-> 90, file |-> 2], [distance |-> 95, file |-> 1]>>],
     [k |-> "docs", docs |-> <<[distance |-> 10, file |-> 2], [distance |-> 80, file |-> 1],
                               [distance |-> 70, file |-> 2]>>]}

AnswerReplies == {[k |-> "raise", err |-> ErrTimeout], [k |-> "content", text |-> SP \o Txt("answer") \o NL]}

\* Candidate lists for answer_question: up to MaxDocs documents in every order,
\* distances in hundredths (cosine distance runs from 0 to 2), and thresholds below,
\* inside and above the range of a similarity.
MaxDocs == 3
Distances == {10, 80, 95, 150}
Doc(distance) == [distance |-> distance, file |-> IF distance < 50 THEN 1 ELSE 2]
RECURSIVE DocLists(_)
DocLists(n) ==
    IF n = 0 THEN {<<>>}
    ELSE DocLists(n - 1)
         \cup {Append(l, Doc(d)) : l \in {x \in DocLists(n - 1) : Len(x) = n - 1}, d \in Distances}
Thresholds == {0, 30, 101}

\* What the Tavily client does: it raises, or returns a response.
r_site == [url |-> Txt("https://site"), title |-> Txt("Site")]
r_no_url == [url |-> <<>>, title |-> Txt("Untitled")]
TavilyOutcomes ==
    {[k |-> "raise", err |-> ErrTimeout]}
    \cup {[k |-> "response", response |-> [results |-> rs, answer |-> a]] :
            rs \in {<<>>, <<r_site>>, <<r_no_url, r_site>>}, a \in {<<>>, Txt("summary")}}

\* -------------------------------------------------------------- state

VARIABLES
    orch_initialized,    \* OrchestratorService._initialized
    router_initialized,  \* RouterAgent._initialized
    agent_initialized,   \* sql_agent / rag_agent / web_search_agent ._initialized
    pc,                  \* where the current process_query call is
    query,               \* its argument
    llm_reply,           \* what the classifier's llm.invoke did in this call
    route_result,        \* what self.router.route(query) did
    tasks,               \* the coroutines handed to asyncio.gather, by agent
    done,                \* the tasks that have completed
    results,             \* the list asyncio.gather is filling
    invoked,             \* the agent wrappers that ran, in completion order
    synth,               \* the synthesis llm.invoke calls and the answers in the prompt
    result,              \* what process_query returned
    allowed_sql_operations, \* settings.allowed_sql_operations
    call,                \* the call last made to a component on its own
    outcome,             \* what that call returned and did
    chat_history,        \* routes.py line 35: session id -> messages
    requests             \* the HTTP requests being served, by connection

orchestrator == <<orch_initialized, router_initialized, agent_initialized, pc, query, llm_reply,
                  route_result, tasks, done, results, invoked, synth, result>>

component == <<allowed_sql_operations, call, outcome>>

api == <<chat_history, requests>>

vars == <<orchestrator, component, api>>

flags == <<orch_initialized, router_initialized, agent_initialized>>

NoSynth == [calls |-> 0, raised |-> FALSE, prompt |-> <<>>]

\* Requests are told apart by the connection they arrive on; a connection without a
\* request being served carries NoRequest.
MaxRequests == 2
MaxMessages == 3
RequestIds == 1..MaxRequests
SessionIds == {"user123", "user456"}
NoRequest == [handler |-> "none"]

\* The services as constructed (OrchestratorService.__init__, RouterAgent.__init__).
InitOrchestrator ==
    /\ orch_initialized = FALSE
    /\ router_initialized = FALSE
    /\ agent_initialized = [a \in ConcreteTools |-> FALSE]
    /\ pc = "idle"
    /\ query = <<>>
    /\ llm_reply = Null
    /\ route_result = Null
    /\ tasks = <<>>
    /\ done = {}
    /\ results = <<>>
    /\ invoked = <<>>
    /\ synth = NoSynth
    /\ result = Null

\* routes.py as imported: no session, no request being served.
InitApi ==
    /\ chat_history = <<>>
    /\ requests = [r \in RequestIds |-> NoRequest]

Init ==
    /\ InitOrchestrator
    /\ InitApi
    /\ allowed_sql_operations = SELECT
    /\ call = Null
    /\ outcome = Null

\* process_query is entered (lines 71-72): the lazy initialization runs outside the
\* try block, so its exception leaves the call.
process_query_enter ==
    /\ pc = "idle"
    /\ \E q \in Queries, rok \in InitOutcomes(router_initialized), lok \in InitOutcomes(orch_initialized) :
          LET ini == IF orch_initialized
                     THEN [ok |-> TRUE, router |-> router_initialized, orch |-> TRUE]
                     ELSE initialize(router_initialized, [router_ok |-> rok, llm_ok |-> lok])
          IN  /\ query' = q
              /\ router_initialized' = ini.router
              /\ orch_initialized' = ini.orch
              /\ pc' = IF ini.ok THEN "routing" ELSE "raised"
    /\ UNCHANGED <<agent_initialized, llm_reply, route_result, tasks, done, results,
                   invoked, synth, result>>
    /\ UNCHANGED <<component, api>>

\* Line 78 with the shipped RouterAgent: route(query), lazy initialization included.
router_route ==
    /\ pc = "routing"
    /\ \E llm \in RouterReplies, rok \in InitOutcomes(router_initialized) :
          /\ llm_reply' = llm
          /\ router_initialized' = rok
          /\ route_result' = IF rok THEN route(query, llm) ELSE Raise("Exception", ErrTimeout)
    /\ pc' = "routed"
    /\ UNCHANGED <<orch_initialized, agent_initialized, query, tasks, done, results,
                   invoked, synth, result>>
    /\ UNCHANGED <<component, api>>

\* `routing_decision.get("tools", [])`, empty when `not tools`.
multiple_tools(decision) ==
    IF "tools" \in DOMAIN decision /\ decision["tools"].t = "list" THEN decision["tools"].items ELSE <<>>

\* Lines 74-110 after the router returned or raised: the log line, then one agent
\* (run to its end here) or the fan-out of _execute_multiple_agents; an exception is
\* caught at line 102.
process_query_dispatch ==
    /\ pc = "routed"
    /\ LET logged == IF route_result.ok THEN log_routing(route_result.val) ELSE route_result
       IN  IF ~logged.ok
           THEN /\ result' = error_result(logged.err)
                /\ pc' = "returned"
                /\ UNCHANGED <<agent_initialized, tasks, results, invoked>>
           ELSE LET decision == route_result.val
                    tool == decision["tool"]
                    tools == multiple_tools(decision)
                IN  IF tool = Str(MULTIPLE) /\ tools # <<>>
                    THEN /\ tasks' = build_tasks(tools)
                         /\ results' = [i \in DOMAIN build_tasks(tools) |-> Null]
                         /\ pc' = "gather"
                         /\ UNCHANGED <<agent_initialized, invoked, result>>
                    ELSE LET agent == IF tool = Str(MULTIPLE) THEN RAG ELSE single_agent_for(tool.str)
                         IN  \E env \in AgentEnvs(agent, agent_initialized[agent]) :
                                LET r == execute_agent(agent, query, agent_initialized[agent], env)
                                IN  /\ result' = attach_routing(r.res, decision)
                                    /\ invoked' = <<agent>>
                                    /\ agent_initialized' = [agent_initialized EXCEPT ![agent] = r.initialized]
                                    /\ pc' = "returned"
                                    /\ UNCHANGED <<tasks, results>>
    /\ llm_reply' = Null
    /\ UNCHANGED <<orch_initialized, router_initialized, query, route_result, done, synth>>
    /\ UNCHANGED <<component, api>>

\* One coroutine of the gather runs to its end; the branches finish in any order.
agent_task(i) ==
    /\ pc = "gather"
    /\ i \in DOMAIN tasks
    /\ i \notin done
    /\ \E env \in AgentEnvs(tasks[i], agent_initialized[tasks[i]]) :
          LET r == execute_agent(tasks[i], query, agent_initialized[tasks[i]], env)
          IN  /\ results' = gather_store(results, i, Ok(r.res))
              /\ agent_initialized' = [agent_initialized EXCEPT ![tasks[i]] = r.initialized]
    /\ done' = done \cup {i}
    /\ invoked' = Append(invoked, tasks[i])
    /\ UNCHANGED <<orch_initialized, router_initialized, pc, query, llm_reply, route_result,
                   tasks, synth, result>>
    /\ UNCHANGED <<component, api>>

\* Lines 174-193 and 96-100: the gather has returned; filter, aggregate, attach, return.
gather_done ==
    /\ pc = "gather"
    /\ done = DOMAIN tasks
    /\ LET valid == valid_results(results)
       IN  IF valid = <<>>
           THEN /\ result' = attach_routing(no_results, route_result.val)
                /\ synth' = synth
           ELSE \E llm \in SynthReplies, order \in Orderings(all_sources(valid)) :
                   LET agg == _aggregate_results(query, valid, llm, order)
                   IN  /\ result' = attach_routing(agg.result, route_result.val)
                       /\ synth' = [calls |-> IF agg.llm_called THEN 1 ELSE 0, raised |-> agg.llm_raised,
                                    prompt |-> agg.prompt]
    /\ pc' = "returned"
    /\ UNCHANGED <<orch_initialized, router_initialized, agent_initialized, query, llm_reply,
                   route_result, tasks, done, results, invoked>>
    /\ UNCHANGED <<component, api>>

\* The call is over; the caller makes another one.  The singletons keep their flags.
next_call ==
    /\ pc \in {"returned", "raised"}
    /\ pc' = "idle"
    /\ query' = <<>>
    /\ llm_reply' = Null
    /\ route_result' = Null
    /\ tasks' = <<>>
    /\ done' = {}
    /\ results' = <<>>
    /\ invoked' = <<>>
    /\ synth' = NoSynth
    /\ result' = Null
    /\ UNCHANGED flags
    /\ UNCHANGED <<component, api>>

Next ==
    \/ process_query_enter
    \/ router_route
    \/ process_query_dispatch
    \/ \E i \in DOMAIN tasks : agent_task(i)
    \/ gather_done
    \/ next_call

Spec == Init /\ [][Next]_vars

\* ------------------------------------- the orchestrator with any router

\* self.router (line 25) is a collaborator: the decisions of the routing contract,
\* NONE included, or an exception.
StubDecisions ==
    {WithTool(Str(t)) : t \in {SQL, RAG, WEB_SEARCH, NONE}}
    \cup {WithTool(Str(MULTIPLE))}
    \cup {WithTools(Str(MULTIPLE), List(tl)) :
            tl \in {<<>>, <<Str(SQL), Str(RAG)>>, <<Str(RAG), Str(WEB_SEARCH)>>, <<Str(NONE)>>}}

StubOutcomes == {Ok(d) : d \in StubDecisions} \cup {Raise("Exception", ErrTimeout)}

\* Line 78 with a substituted router.
router_stub ==
    /\ pc = "routing"
    /\ \E out \in StubOutcomes : route_result' = out
    /\ pc' = "routed"
    /\ UNCHANGED <<orch_initialized, router_initialized, agent_initialized, query, llm_reply,
                   tasks, done, results, invoked, synth, result>>
    /\ UNCHANGED <<component, api>>

NextOrch ==
    \/ process_query_enter
    \/ router_stub
    \/ process_query_dispatch
    \/ \E i \in DOMAIN tasks : agent_task(i)
    \/ gather_done
    \/ next_call

SpecOrch == Init /\ [][NextOrch]_vars

\* --------------------------------------------- the components, call by call

\* DatabaseService.validate_query(query)
call_validate_query ==
    /\ call = Null
    /\ \E q \in SqlTexts :
          /\ call' = [op |-> "validate_query", query |-> q]
          /\ outcome' = validate_query(q, allowed_sql_ops_list(allowed_sql_operations))
    /\ UNCHANGED <<allowed_sql_operations, orchestrator, api>>

\* DatabaseService.execute_query(query), by whichever caller
call_db_execute_query ==
    /\ call = Null
    /\ \E q \in SqlTexts, db \in DbOutcomes :
          /\ call' = [op |-> "db_service.execute_query", query |-> q]
          /\ outcome' = db_execute_query(q, db)
    /\ UNCHANGED <<allowed_sql_operations, orchestrator, api>>

\* SQLAgent.execute_query(question, validate)
call_sql_execute_query ==
    /\ call = Null
    /\ \E validate \in BOOLEAN, llm \in SqlReplies, db \in DbOutcomes :
          /\ call' = [op |-> "sql_agent.execute_query", validate |-> validate, llm |-> llm]
          /\ outcome' = sql_execute_query(validate, llm, db, allowed_sql_ops_list(allowed_sql_operations))
    /\ UNCHANGED <<allowed_sql_operations, orchestrator, api>>

\* OrchestratorService._execute_sql_agent(query) with the agent initialized: line 202
\* calls sql_agent.execute_query(query, validate=True), lines 204-233 build the result.
call_execute_sql_agent ==
    /\ call = Null
    /\ \E llm \in SqlReplies, db \in DbOutcomes, f \in FormatReplies :
          LET did == sql_execute_query(TRUE, llm, db, allowed_sql_ops_list(allowed_sql_operations))
          IN  /\ call' = [op |-> "_execute_sql_agent", llm |-> llm, db |-> db, format |-> f, did |-> did]
              /\ outcome' = _execute_sql_agent(q_skolko, TRUE,
                                [init_ok |-> TRUE, init_err |-> <<>>, ret |-> did.ret, llm |-> f]).res
    /\ UNCHANGED <<allowed_sql_operations, orchestrator, api>>

\* The caller has its result; the component is called again.
call_returns ==
    /\ call # Null
    /\ call' = Null
    /\ outcome' = Null
    /\ UNCHANGED <<allowed_sql_operations, orchestrator, api>>

InitSql ==
    /\ InitOrchestrator
    /\ InitApi
    /\ allowed_sql_operations \in AllowedSqlOperations
    /\ call = Null
    /\ outcome = Null

NextSql ==
    \/ call_validate_query
    \/ call_db_execute_query
    \/ call_sql_execute_query
    \/ call_execute_sql_agent
    \/ call_returns

SpecSql == InitSql /\ [][NextSql]_vars

\* OrchestratorService._execute_rag_agent(query) with the agent initialized.
call_execute_rag_agent ==
    /\ call = Null
    /\ \E found \in RagSearches, llm \in AnswerReplies :
          LET did == answer_question(found, llm)
          IN  /\ call' = [op |-> "_execute_rag_agent", search |-> found, llm |-> llm, did |-> did]
              /\ outcome' = _execute_rag_agent(q_chto_takoe, TRUE,
                                [init_ok |-> TRUE, init_err |-> <<>>, ret |-> did.ret]).res
    /\ UNCHANGED <<allowed_sql_operations, orchestrator, api>>

\* OrchestratorService._execute_web_search_agent(query) with the agent initialized.
call_execute_web_search_agent ==
    /\ call = Null
    /\ \E q \in {q_news, q_count_novosti}, search_initialized \in BOOLEAN,
          tavily \in TavilyOutcomes, llm \in AnswerReplies :
          LET did == web_search(q, search_initialized, tavily, llm)
          IN  /\ call' = [op |-> "_execute_web_search_agent", query |-> q,
                          search_initialized |-> search_initialized, tavily |-> tavily,
                          llm |-> llm, did |-> did]
              /\ outcome' = _execute_web_search_agent(q, TRUE,
                                [init_ok |-> TRUE, init_err |-> <<>>, ret |-> did.ret]).res
    /\ UNCHANGED <<allowed_sql_operations, orchestrator, api>>

\* RAGAgent.answer_question(question, top_k, min_relevance_score) called directly;
\* filtered_docs is the local of lines 87-122, reported as relevant_chunks.
call_answer_question ==
    /\ call = Null
    /\ \E docs \in DocLists(MaxDocs), min_relevance \in Thresholds, llm \in AnswerReplies :
          /\ call' = [op |-> "answer_question", search |-> [k |-> "docs", docs |-> docs],
                      min_relevance |-> min_relevance, llm |-> llm,
                      filtered_docs |-> IF docs = <<>> THEN <<>>
                                        ELSE filter_docs_at(docs, min_relevance),
                      did |-> answer_question_at([k |-> "docs", docs |-> docs], llm, min_relevance)]
          /\ outcome' = answer_question_at([k |-> "docs", docs |-> docs], llm, min_relevance).ret
    /\ UNCHANGED <<allowed_sql_operations, orchestrator, api>>

NextRag ==
    \/ call_answer_question
    \/ call_returns

SpecRag == Init /\ [][NextRag]_vars

\* OrchestratorService._execute_*_agent(query) on an agent that is not initialized
\* and whose initialize() raises (lines 197-199, 247-249, 292-294): the agent's method
\* is not reached.
call_execute_agent_uninitialized ==
    /\ call = Null
    /\ \E agent \in ConcreteTools, q \in Queries :
          /\ call' = [op |-> "_execute_agent_uninitialized", agent |-> agent, query |-> q,
                      init_err |-> ErrTimeout]
          /\ outcome' = execute_agent(agent, q, FALSE,
                            [init_ok |-> FALSE, init_err |-> ErrTimeout, ret |-> <<>>]).res
    /\ UNCHANGED <<allowed_sql_operations, orchestrator, api>>

\* The three agents as the orchestrator calls them.
NextAgents ==
    \/ call_execute_agent_uninitialized
    \/ call_execute_sql_agent
    \/ call_execute_rag_agent
    \/ call_execute_web_search_agent
    \/ call_returns

SpecAgents == InitSql /\ [][NextAgents]_vars

\* ------------------------------------------------ routes.py: chat, clear_history

Message(role) == [role |-> role]

\* What `await orchestrator.process_query(...)` does within a chat request: it raises
\* (the lazy initialization of lines 71-72), or returns a result for a routing decision.
ProcessQueryRuns ==
    {[k |-> "raise", err |-> ErrTimeout]}
    \cup {[k |-> "result", decision |-> d] : d \in StubDecisions}

\* process_query gives up the event loop only where it awaits a pending future: the
\* asyncio.gather of orchestrator_service.py line 172, reached for a MULTIPLE decision
\* whose tools start at least one coroutine.  Every other await of the call is on a
\* coroutine that runs to its end without suspending.
suspends(run) ==
    /\ run.k = "result"
    /\ run.decision["tool"] = Str(MULTIPLE)
    /\ build_tasks(multiple_tools(run.decision)) # <<>>

\* Lines 63-71 of chat: the session is created when it is missing and the user's
\* message is appended.
chat_open(history, session_id) ==
    IF session_id \in DOMAIN history
    THEN [history EXCEPT ![session_id] = Append(@, Message("user"))]
    ELSE history @@ (session_id :> <<Message("user")>>)

\* Lines 82-131 of chat, after process_query returned, and the except clause of lines
\* 133-138: chat_history[session_id].append(assistant_message) raises KeyError when
\* the session is not in the dict.
chat_close(history, session_id) ==
    IF session_id \notin DOMAIN history
    THEN [history |-> history, response |-> [status |-> 500, detail |-> "KeyError"]]
    ELSE [history |-> [history EXCEPT ![session_id] = Append(@, Message("assistant"))],
          response |-> [status |-> 200, session_id |-> session_id]]

\* POST /chat up to the point where the handler gives up the event loop, or to its
\* end when process_query does not suspend.
chat_enter(r) ==
    /\ requests[r] = NoRequest
    /\ \E session_id \in SessionIds, run \in ProcessQueryRuns :
          /\ session_id \in DOMAIN chat_history => Len(chat_history[session_id]) < MaxMessages
          /\ IF run.k = "raise"
             THEN /\ chat_history' = chat_open(chat_history, session_id)
                  /\ requests' = [requests EXCEPT ![r] =
                        [handler |-> "chat", session_id |-> session_id, pc |-> "responded",
                         suspended |-> FALSE,
                         response |-> [status |-> 500, detail |-> "Exception"]]]
             ELSE IF suspends(run)
             THEN /\ chat_history' = chat_open(chat_history, session_id)
                  /\ requests' = [requests EXCEPT ![r] =
                        [handler |-> "chat", session_id |-> session_id, pc |-> "awaiting",
                         suspended |-> TRUE, response |-> Null]]
             ELSE /\ chat_history' = chat_close(chat_open(chat_history, session_id), session_id).history
                  /\ requests' = [requests EXCEPT ![r] =
                        [handler |-> "chat", session_id |-> session_id, pc |-> "responded",
                         suspended |-> FALSE,
                         response |-> chat_close(chat_open(chat_history, session_id), session_id).response]]
    /\ UNCHANGED <<orchestrator, component>>

\* The gather has completed and the handler runs from line 82 to its end.
chat_resume(r) ==
    /\ requests[r].handler = "chat"
    /\ requests[r].pc = "awaiting"
    /\ chat_history' = chat_close(chat_history, requests[r].session_id).history
    /\ requests' = [requests EXCEPT ![r].pc = "responded",
                                    ![r].response = chat_close(chat_history, requests[r].session_id).response]
    /\ UNCHANGED <<orchestrator, component>>

\* DELETE /history/{session_id} (lines 190-201); the handler does not await.
clear_history(r) ==
    /\ requests[r] = NoRequest
    /\ \E session_id \in SessionIds :
          IF session_id \in DOMAIN chat_history
          THEN /\ chat_history' = [s \in DOMAIN chat_history \ {session_id} |-> chat_history[s]]
               /\ requests' = [requests EXCEPT ![r] =
                     [handler |-> "clear_history", session_id |-> session_id, pc |-> "responded",
                      response |-> [status |-> 200, session_id |-> session_id]]]
          ELSE /\ chat_history' = chat_history
               /\ requests' = [requests EXCEPT ![r] =
                     [handler |-> "clear_history", session_id |-> session_id, pc |-> "responded",
                      response |-> [status |-> 404, session_id |-> session_id]]]
    /\ UNCHANGED <<orchestrator, component>>

\* The response is sent; the connection takes another request.
request_served(r) ==
    /\ requests[r] # NoRequest
    /\ requests[r].pc = "responded"
    /\ requests' = [requests EXCEPT ![r] = NoRequest]
    /\ UNCHANGED <<chat_history, orchestrator, component>>

NextApi ==
    \/ \E r \in RequestIds : chat_enter(r)
    \/ \E r \in RequestIds : chat_resume(r)
    \/ \E r \in RequestIds : clear_history(r)
    \/ \E r \in RequestIds : request_served(r)

SpecApi == Init /\ [][NextApi]_vars

\* ---------------------------------------------------------- properties

RECURSIVE IsSubseq(_, _)
IsSubseq(a, b) ==
    IF a = <<>> THEN TRUE
    ELSE IF b = <<>> THEN FALSE
    ELSE IF Head(a) = Head(b) THEN IsSubseq(Tail(a), Tail(b))
    ELSE IsSubseq(a, Tail(b))

\* Case folding of a text, letter by letter.
CaseFold(x) == [i \in DOMAIN x |-> [x[i] EXCEPT !.up = FALSE]]
MentionsAny(keywords, q) == \E k \in DOMAIN keywords : str_in(CaseFold(keywords[k]), CaseFold(q))

Returned == pc = "returned"
Routed == pc = "routed"
DecidedMultiple == route_result.ok /\ route_result.val["tool"] = Str(MULTIPLE)
FannedOut == Returned /\ DecidedMultiple /\ tasks # <<>>
DecisionTools == [i \in DOMAIN route_result.val["tools"].items |-> route_result.val["tools"].items[i].str]
Succeeded == {i \in DOMAIN results : results[i].val.success}
AgentRaised(r) == ~r.success /\ r.answer # <<>> /\
                  r.answer[1].c \in {"Oshibka SQL Agent: ", "Oshibka RAG Agent: ", "Oshibka Web Search Agent: "}
LabelTool(p) == CHOOSE t \in ConcreteTools : SubSeq(p, 1, Len(t) + 3) = Sym(<<"[">>) \o t \o Sym(<<"]", " ">>)
TypeTool(u) == IF u.tool_type = "sql" THEN SQL ELSE IF u.tool_type = "rag" THEN RAG ELSE WEB_SEARCH
FailureShape(r) == r.success = FALSE /\ r.tools_used = <<>> /\ r.sources = <<>>

\* C1: process_query never raises: whatever fails during the call, the lazy
\* initialization of the orchestrator or router included, the call returns a result
\* with success false and empty tools_used and sources.
C1_process_query_never_raises ==
    /\ pc # "raised"
    /\ (Returned /\ ~route_result.ok) => FailureShape(result)

C4_single_survivor_passes_through ==
    (/\ FannedOut
     /\ Len(tasks) = 2
     /\ Cardinality(Succeeded) = 1
     /\ \E i \in DOMAIN results : AgentRaised(results[i].val)) =>
        LET survivor == results[CHOOSE i \in Succeeded : TRUE].val
        IN  /\ result.success = TRUE
            /\ result.answer = survivor.answer
            /\ result.tools_used = survivor.tools_used
            /\ Range(result.sources) = Range(survivor.sources)
            /\ synth.calls = 0

\* C5: in the fan-out the answers put in the synthesis prompt and the concatenated
\* tools_used follow the order of decision.tools, whatever order the branches finish in.
C5_prompt_in_tools_order ==
    FannedOut =>
        /\ \A i \in DOMAIN results : results[i].val.tool = DecisionTools[i]
        /\ IsSubseq([k \in DOMAIN synth.prompt |-> LabelTool(synth.prompt[k])], DecisionTools)
        /\ result.success =>
              IsSubseq([k \in DOMAIN result.tools_used |-> TypeTool(result.tools_used[k])], DecisionTools)

C5_witness ==
    /\ FannedOut
    /\ tasks = <<SQL, RAG>>
    /\ invoked = <<RAG, SQL>>
    /\ synth.calls = 1
    /\ Len(synth.prompt) = 2

\* C6: MULTIPLE with no agent yielding a successful result: success false, empty
\* tools_used and sources, no synthesis call.
C6_all_failed ==
    (FannedOut /\ Succeeded = {}) => (FailureShape(result) /\ synth.calls = 0)

C6_witness ==
    /\ FannedOut
    /\ Len(tasks) >= 2
    /\ Succeeded = {}
    /\ \E i \in DOMAIN results : AgentRaised(results[i].val)
    /\ \E i \in DOMAIN results : ~AgentRaised(results[i].val)

\* C7: two or more agents succeed and the synthesis call raises: success is true and
\* the answer is the successful agents' answers, each whole, in decision.tools order.
C7_synthesis_failure_keeps_answers ==
    (FannedOut /\ Cardinality(Succeeded) >= 2 /\ synth.calls = 1 /\ synth.raised) =>
        LET given == SelectIdx(Len(results), {i \in Succeeded : results[i].val.answer # <<>>})
        IN  /\ result.success = TRUE
            /\ \A i \in Succeeded : str_in(results[i].val.answer, result.answer)
            /\ result.answer = str_join(NL2, [k \in DOMAIN given |-> results[given[k]].val.answer])

C7_witness ==
    /\ FannedOut
    /\ Cardinality(Succeeded) = 3
    /\ synth.raised
    /\ \E i \in Succeeded : str_in(Sym(<<"]", " ">>), results[i].val.answer)

C9_fallback_by_keywords ==
    (Routed /\ llm_reply.k = "raise") =>
        LET sql == MentionsAny(fallback_sql_keywords, query)
            web == MentionsAny(fallback_web_keywords, query)
            tool == route_result.val["tool"]
        IN  /\ (sql /\ ~web) => tool = Str(SQL)
            /\ (web /\ ~sql) => tool = Str(WEB_SEARCH)
            /\ (~sql /\ ~web) => tool = Str(RAG)
            /\ \A e \in {<<>>, ErrTimeout, kw_news} :
                  route(query, [k |-> "raise", err |-> e]).val["tool"] = tool

C9_witness ==
    /\ Routed
    /\ llm_reply = [k |-> "raise", err |-> kw_news]
    /\ query = q_skolko
    /\ route_result.val["tool"] = Str(SQL)

\* C10: a decision route returns with tool MULTIPLE has a non-empty tools list whose
\* elements are all among SQL, RAG, WEB_SEARCH.
C10_multiple_has_concrete_tools ==
    (Routed /\ DecidedMultiple) =>
        /\ "tools" \in DOMAIN route_result.val
        /\ route_result.val["tools"].t = "list"
        /\ route_result.val["tools"].items # <<>>
        /\ \A i \in DOMAIN route_result.val["tools"].items :
              route_result.val["tools"].items[i] \in {Str(SQL), Str(RAG), Str(WEB_SEARCH)}

C10_witness ==
    /\ Routed
    /\ DecidedMultiple
    /\ llm_reply = [k |-> "content", text |-> <<Json(Obj(WithTools(Str(MULTIPLE), List(<<j_foo, Str(RAG)>>))))>>]
    /\ route_result.val["tools"] = List(<<Str(RAG)>>)

\* The JSON object of a reply that is one JSON value, and whether its tools field
\* leaves nothing to run: absent, not a list, or a list with no concrete tool in it.
ReplyObject == llm_reply.text[1].val.obj
RepliedObject ==
    /\ Routed
    /\ llm_reply.k = "content"
    /\ Len(llm_reply.text) = 1
    /\ llm_reply.text[1].seg = "json"
    /\ llm_reply.text[1].val.t = "obj"
RepliedMultiple ==
    /\ RepliedObject
    /\ "tool" \in DOMAIN ReplyObject
    /\ ReplyObject["tool"].t = "str"
    /\ str_upper(ReplyObject["tool"].str) = MULTIPLE
ToolsAbsent == "tools" \notin DOMAIN ReplyObject
ToolsNotAList == "tools" \in DOMAIN ReplyObject /\ ReplyObject["tools"].t # "list"
ToolsEmptyAfterFiltering ==
    /\ "tools" \in DOMAIN ReplyObject
    /\ ReplyObject["tools"].t = "list"
    /\ \A i \in DOMAIN ReplyObject["tools"].items :
          /\ ReplyObject["tools"].items[i].t = "str"
          /\ str_upper(ReplyObject["tools"].items[i].str) \notin ConcreteTools

\* C11: when the language model answers MULTIPLE and tools is absent, not a list, or
\* empty after filtering to SQL, RAG, WEB_SEARCH, the decision keeps tool MULTIPLE and
\* its tools are the list inferred from the query's keywords.
C11_multiple_without_tools_is_inferred ==
    (RepliedMultiple /\ (ToolsAbsent \/ ToolsNotAList \/ ToolsEmptyAfterFiltering)) =>
        /\ route_result.ok
        /\ route_result.val["tool"] = Str(MULTIPLE)
        /\ "tools" \in DOMAIN route_result.val
        /\ route_result.val["tools"] = List(_infer_tools_from_query(query))

CallCount(calls, name) == Cardinality({i \in DOMAIN calls : calls[i] = name})
IsFallbackDecision(d) ==
    d["query_type"] \in {Str(Txt("fallback_sql")), Str(Txt("fallback_web_search")), Str(Txt("fallback_rag"))}

\* C12: one route() call invokes the language model at most once and computes the
\* fallback at most once; when the model raises, its reply does not parse, or
\* validation fails, the decision returned is the one fallback decision computed.
C12_one_model_call_one_fallback ==
    Routed =>
        /\ CallCount(route_calls(query, llm_reply), "llm.invoke") <= 1
        /\ CallCount(route_calls(query, llm_reply), "_fallback_routing") <= 1
        /\ route_result.ok
        /\ IsFallbackDecision(route_result.val) <=>
              CallCount(route_calls(query, llm_reply), "_fallback_routing") = 1

C12_witness ==
    /\ Routed
    /\ RepliedMultiple
    /\ "tools" \in DOMAIN ReplyObject
    /\ ReplyObject["tools"] = List(<<j_foo>>)
    /\ route_calls(query, llm_reply) = <<"llm.invoke", "_fallback_routing">>
    /\ IsFallbackDecision(route_result.val)

Called(op) == "op" \in DOMAIN call /\ call.op = op
AllowedOps == allowed_sql_ops_list(allowed_sql_operations)
Rejects(q) == ~validate_query(q, AllowedOps).is_valid

\* C13: when the orchestrator runs the SQL agent and the validator rejects the
\* generated query, the query does not reach the database, the result has
\* success false with the validator's reason inside its answer, and the query was
\* generated once; every request generates once.
C13_rejected_query_is_not_executed ==
    Called("_execute_sql_agent") =>
        /\ CallCount(call.did.calls, "generate_sql") = 1
        /\ (generate_sql(call.llm).ok /\ Rejects(generate_sql(call.llm).val)) =>
              /\ call.did.executed = <<>>
              /\ CallCount(call.did.calls, "db_service.execute_query") = 0
              /\ outcome.success = FALSE
              /\ str_in(validate_query(generate_sql(call.llm).val, AllowedOps).msg, outcome.answer)

C13_witness ==
    /\ Called("_execute_sql_agent")
    /\ generate_sql(call.llm) = Ok(w_select \o SP \o ONE \o SEMI \o SP \o w_drop \o SP \o w_t)
    /\ outcome.success = FALSE
    /\ outcome.answer = Txt("SQL Agent: ") \o Txt("Dangerous operation '") \o DROP
                        \o Txt("' detected in query. Only ") \o SELECT \o Txt(" operations are permitted.")

ContainsProcedurePrefix(q) ==
    \E i \in DOMAIN dangerous_patterns : str_in(dangerous_patterns[i], CaseFold(q))

\* C14: validate_query rejects every query that contains xp_ or sp_ anywhere, in
\* any letter case, also when it starts with an allowed verb and holds no
\* deny-listed keyword.
C14_procedure_prefix_is_rejected ==
    (Called("validate_query") /\ ContainsProcedurePrefix(call.query)) => ~outcome.is_valid

StartsWithAllowedVerb(q) ==
    str_strip(q) # <<>> /\ in_list(str_upper(first_token(str_strip(q))), AllowedOps)
OccursAsWord(word, q) ==
    \E i \in DOMAIN q :
        /\ i + Len(word) - 1 <= Len(q)
        /\ CaseFold(SubSeq(q, i, i + Len(word) - 1)) = CaseFold(word)
        /\ i = 1 \/ ~IsWordChar(q[i - 1])
        /\ i + Len(word) - 1 = Len(q) \/ ~IsWordChar(q[i + Len(word)])
RejectedForKeyword == ~outcome.is_valid /\ str_startswith(outcome.msg, Txt("Dangerous operation '"))

\* C15: a query that starts with an allowed verb is rejected by the keyword check
\* exactly when a deny-listed keyword that is not itself allowed occurs in it as a
\* whole word, in any letter case; a keyword inside a longer identifier does not count.
C15_keyword_rejected_as_whole_word ==
    (Called("validate_query") /\ StartsWithAllowedVerb(call.query)) =>
        (RejectedForKeyword <=>
            \E k \in DOMAIN DenyList :
                OccursAsWord(DenyList[k], call.query) /\ ~in_list(DenyList[k], AllowedOps))

C15_witness ==
    /\ Called("validate_query")
    /\ call.query = w_select \o SP \o w_created_at \o SEMI
    /\ outcome.is_valid

Semicolons(q) == Cardinality({i \in DOMAIN q : q[i] = SEMI[1]})
EndsWithSemicolon(q) ==
    \E i \in DOMAIN q : q[i] = SEMI[1] /\ \A j \in (i + 1)..Len(q) : IsSpace(q[j])
OtherwiseValid(q) ==
    /\ StartsWithAllowedVerb(q)
    /\ \A k \in DOMAIN DenyList : OccursAsWord(DenyList[k], q) => in_list(DenyList[k], AllowedOps)
    /\ ~ContainsProcedurePrefix(q)

\* C16: validate_query rejects every query with more than one semicolon and every
\* query whose one semicolon is not its last non-blank character; it accepts a
\* query with one trailing semicolon that no other check rejects.
C16_one_trailing_semicolon_only ==
    Called("validate_query") =>
        /\ Semicolons(call.query) > 1 => ~outcome.is_valid
        /\ (Semicolons(call.query) = 1 /\ ~EndsWithSemicolon(call.query)) => ~outcome.is_valid
        /\ (Semicolons(call.query) = 1 /\ EndsWithSemicolon(call.query) /\ OtherwiseValid(call.query))
              => outcome.is_valid

C16_witness ==
    /\ Called("validate_query")
    /\ call.query = SELECT \o SP \o ONE \o SEMI \o SP \o w_select \o SP \o ONE
    /\ outcome = Verdict(FALSE, Txt("Multiple SQL statements are not allowed"))

\* C17: validate_query returns a rejection for an empty or blank text, and rejects
\* every text whose first word, upper-cased, is not an allowed verb with a reason
\* that names the word, whatever the later checks would say about the text.
C17_first_word_checked_first ==
    Called("validate_query") =>
        /\ (\A i \in DOMAIN call.query : IsSpace(call.query[i])) =>
              outcome = Verdict(FALSE, Txt("Query cannot be empty"))
        /\ ((\E i \in DOMAIN call.query : ~IsSpace(call.query[i])) /\ ~StartsWithAllowedVerb(call.query)) =>
              /\ ~outcome.is_valid
              /\ str_startswith(outcome.msg, Txt("Query must start with one of: "))
              /\ str_endswith(outcome.msg, Txt(". Got: ") \o str_upper(first_token(call.query)))

C17_witness ==
    /\ Called("validate_query")
    /\ call.query = w_drop \o SP \o ONE \o SEMI \o SP \o w_drop \o SP \o w_xp_a \o SEMI \o SEMI
    /\ allowed_sql_operations = SELECT
    /\ outcome = Verdict(FALSE, Txt("Query must start with one of: ") \o SELECT \o Txt(". Got: ") \o DROP)

\* C18: no query that validate_query rejects is executed by DatabaseService.execute_query,
\* whether it is called directly or through SQLAgent.execute_query with or without
\* validation.
C18_executor_refuses_rejected_queries ==
    (Called("db_service.execute_query") \/ Called("sql_agent.execute_query")) =>
        \A i \in DOMAIN outcome.executed : ~Rejects(outcome.executed[i])

\* The retrieval collaborator of the agent called answered with zero candidates.
ZeroRows == Called("_execute_sql_agent") /\ call.did.ret.success /\ call.did.ret.row_count = 0
ZeroChunks == Called("_execute_rag_agent") /\ call.search.k = "docs" /\ call.search.docs = <<>>
ZeroSearchResults ==
    /\ Called("_execute_web_search_agent")
    /\ call.search_initialized
    /\ call.tavily.k = "response"
    /\ call.tavily.response.results = <<>>
NothingFoundMessages ==
    {Txt("Zapros ne vernul rezul'tatov."), RagNothingFound, WebNothingFound}
    \cup {NewsNothingFound(q) : q \in Queries}

\* C19: when the retrieval collaborator of the SQL, RAG or web search agent returns
\* zero candidates, the result the orchestrator gets has success false, a
\* nothing-found answer and empty tools_used and sources, and no answer was generated.
C19_zero_candidates_is_a_failure ==
    (ZeroRows \/ ZeroChunks \/ ZeroSearchResults) =>
        /\ FailureShape(outcome)
        /\ outcome.answer \in NothingFoundMessages
        /\ CallCount(call.did.calls, "llm.invoke") = 0

\* The retrieval collaborator of the agent called raised.
DatabaseRaised == Called("_execute_sql_agent") /\ call.did.executed # <<>> /\ call.db.k = "error"
RagSearchRaised == Called("_execute_rag_agent") /\ call.search.k = "raise"
WebSearchRaised ==
    Called("_execute_web_search_agent") /\ call.search_initialized /\ call.tavily.k = "raise"
CollaboratorError ==
    IF Called("_execute_sql_agent") THEN call.db.msg
    ELSE IF Called("_execute_rag_agent") THEN call.search.err
    ELSE call.tavily.err

\* C20: when the retrieval collaborator raises, the agent's answer describes the
\* error, and the nothing-found answer is given only when the collaborator answered
\* with zero candidates; for the web search agent as for the RAG and SQL agents.
C20_failure_is_not_nothing_found ==
    /\ (DatabaseRaised \/ RagSearchRaised \/ WebSearchRaised) =>
          /\ ~outcome.success
          /\ outcome.answer \notin NothingFoundMessages
          /\ str_in(CollaboratorError, outcome.answer)
    /\ ("answer" \in DOMAIN outcome /\ outcome.answer \in NothingFoundMessages) =>
          (ZeroRows \/ ZeroChunks \/ ZeroSearchResults)

\* The candidates of an answer_question call, the documents it retained, and the
\* candidates at or above the threshold, in the order retrieved.
Candidates == call.search.docs
Retained == call.filtered_docs
AtOrAbove ==
    LET idx == SelectIdx(Len(Candidates),
                         {i \in DOMAIN Candidates : similarity(Candidates[i]) >= call.min_relevance})
    IN  [j \in DOMAIN idx |-> Candidates[idx[j]]]

\* C21: for a non-empty candidate list in any order and any threshold, the retained
\* documents are exactly the candidates whose similarity is at least the threshold
\* when there are any, and otherwise one candidate, the one with the highest
\* similarity of the whole list; the retained documents are never empty.
C21_retained_is_above_threshold_or_best ==
    (Called("answer_question") /\ Candidates # <<>>) =>
        /\ Retained # <<>>
        /\ AtOrAbove # <<>> => Retained = AtOrAbove
        /\ AtOrAbove = <<>> =>
              /\ Len(Retained) = 1
              /\ \E i \in DOMAIN Candidates : Retained[1] = Candidates[i]
              /\ \A i \in DOMAIN Candidates : similarity(Retained[1]) >= similarity(Candidates[i])

\* One of the three per-agent executions was called.
AgentExecuted ==
    \/ Called("_execute_sql_agent")
    \/ Called("_execute_rag_agent")
    \/ Called("_execute_web_search_agent")
    \/ Called("_execute_agent_uninitialized")

\* C22: each per-agent execution (_execute_sql_agent, _execute_rag_agent,
\* _execute_web_search_agent) returns a dict with an explicit success flag and never
\* raises, whether the agent's lazy initialization, its retrieval collaborator or the
\* language model fails; a failure of the initialization or of the retrieval
\* collaborator gives success false.
C22_agent_execution_returns_a_result ==
    AgentExecuted =>
        /\ DOMAIN outcome = {"success", "answer", "tool", "tools_used", "sources"}
        /\ outcome.success \in BOOLEAN
        /\ outcome.tool \in ConcreteTools
        /\ (Called("_execute_agent_uninitialized") \/ RagSearchRaised \/ DatabaseRaised) =>
              FailureShape(outcome)

\* The initialization of an agent raised and the orchestrator got a failure result.
C22_witness ==
    /\ Called("_execute_agent_uninitialized")
    /\ call.agent = WEB_SEARCH
    /\ FailureShape(outcome)
    /\ str_in(call.init_err, outcome.answer)

\* C23: one process_query call dispatches at most three strategy-agent executions,
\* whatever the query and the classification output, a tools list that repeats a
\* tool kind included.
C23_at_most_three_agent_calls ==
    /\ Len(tasks) <= 3
    /\ Len(invoked) <= 3

\* The router decided on one of the three concrete tools and process_query returned.
DecidedConcrete ==
    /\ pc = "returned"
    /\ route_result.ok
    /\ route_result.val["tool"].t = "str"
    /\ route_result.val["tool"].str \in ConcreteTools
DecidedTool == route_result.val["tool"].str

\* What the wrapper of an agent can return for a query.
AgentResults(agent, q) ==
    UNION {{execute_agent(agent, q, initialized, env).res : env \in AgentEnvs(agent, initialized)} :
              initialized \in BOOLEAN}

\* C24: when decision.tool is SQL, RAG or WEB_SEARCH, process_query invokes exactly
\* one strategy agent, the one matching the tool, makes no synthesis call, and returns
\* that agent's success flag, answer, tools_used and sources unchanged, with the
\* routing decision attached; on success tools_used has exactly one entry, for that tool.
C24_single_tool_passes_through ==
    DecidedConcrete =>
        /\ invoked = <<DecidedTool>>
        /\ synth = NoSynth
        /\ \E r \in AgentResults(DecidedTool, query) : result = attach_routing(r, route_result.val)
        /\ result.tool = DecidedTool
        /\ result.success =>
              /\ Len(result.tools_used) = 1
              /\ TypeTool(result.tools_used[1]) = DecidedTool

\* A web search decision whose agent succeeded.
C24_witness ==
    /\ DecidedConcrete
    /\ DecidedTool = WEB_SEARCH
    /\ result.success
    /\ result.sources # <<>>

\* The decision route returned, and the fields the language model's object left out.
Decision == route_result.val
ReplyLacks(k) == RepliedObject /\ k \notin DOMAIN ReplyObject

\* C25: every decision route returns, from the language model or from the fallback,
\* has a non-empty reasoning string and a query_type; a missing reasoning or
\* query_type is filled with 'No reasoning provided' or 'unknown', and a reasoning the
\* model gave as an empty string or null does not reach the caller empty.
C25_reasoning_and_query_type_present ==
    (Routed /\ route_result.ok) =>
        /\ "reasoning" \in DOMAIN Decision
        /\ Decision["reasoning"].t = "str"
        /\ Decision["reasoning"].str # <<>>
        /\ "query_type" \in DOMAIN Decision
        /\ (ReplyLacks("reasoning") /\ ~IsFallbackDecision(Decision)) =>
              Decision["reasoning"] = Str(Txt("No reasoning provided"))
        /\ (ReplyLacks("query_type") /\ ~IsFallbackDecision(Decision)) =>
              Decision["query_type"] = Str(Txt("unknown"))

\* The calls one agent execution made, in order; the call to its retrieval
\* collaborator; and whether that call returned something.
ExecutionCalls == IF Called("_execute_sql_agent") THEN sql_agent_calls(call.did) ELSE call.did.calls
RetrievalCall ==
    IF Called("_execute_sql_agent") THEN "db_service.execute_query"
    ELSE IF Called("_execute_rag_agent") THEN "rag_service.search"
    ELSE "search_service.search"
RetrievedSomething ==
    \/ Called("_execute_sql_agent") /\ call.did.ret.success /\ call.did.ret.row_count > 0
    \/ Called("_execute_rag_agent") /\ call.search.k = "docs" /\ call.search.docs # <<>>
    \/ /\ Called("_execute_web_search_agent")
       /\ call.search_initialized
       /\ call.tavily.k = "response"
       /\ call.tavily.response.results # <<>>
AgentRan ==
    \/ Called("_execute_sql_agent")
    \/ Called("_execute_rag_agent")
    \/ Called("_execute_web_search_agent")

\* C26: within one strategy-agent execution the answer-generation llm.invoke comes
\* after the call to the agent's retrieval collaborator (vector search, web search,
\* database execution), and only when that call returned a non-empty result.
C26_retrieval_precedes_generation ==
    AgentRan =>
        \A i \in DOMAIN ExecutionCalls :
            ExecutionCalls[i] = "llm.invoke" =>
                /\ \E j \in 1..(i - 1) : ExecutionCalls[j] = RetrievalCall
                /\ RetrievedSomething

\* An execution that retrieved something and generated an answer from it.
C26_witness ==
    /\ Called("_execute_web_search_agent")
    /\ RetrievedSomething
    /\ ExecutionCalls = <<"search_service.search", "llm.invoke">>
    /\ outcome.success

\* The language model's reply is an object whose tool, in upper case, names an agent.
RepliedConcrete ==
    /\ RepliedObject
    /\ "tool" \in DOMAIN ReplyObject
    /\ ReplyObject["tool"].t = "str"
    /\ str_upper(ReplyObject["tool"].str) \in ConcreteTools

\* C27: when the language model's reply parses to an object whose tool, in upper
\* case, is SQL, RAG or WEB_SEARCH, route returns a decision with that tool and not a
\* fallback decision, whatever the reasoning, confidence and query_type are: missing,
\* null or of an unexpected type.
C27_valid_tool_is_kept ==
    RepliedConcrete =>
        /\ route_result.ok
        /\ Decision["tool"] = Str(str_upper(ReplyObject["tool"].str))
        /\ ~IsFallbackDecision(Decision)

\* A chat request has its response; it was suspended in process_query on the way.
ChatResponded(r) ==
    /\ requests[r].handler = "chat"
    /\ requests[r].pc = "responded"
ResumedChat(r) == ChatResponded(r) /\ requests[r].suspended

\* C28: whatever the interleaving of chat and clear-history requests for one session
\* id, a chat request that was suspended in process_query does not fail because its
\* session entry was removed meanwhile: it returns a ChatResponse, not HTTP 500.
C28_chat_survives_clear_history ==
    \A r \in RequestIds : ResumedChat(r) => requests[r].response.status = 200

\* route returned a fallback decision, and the error messages that can have led to it:
\* what the try block raised, or one of the messages _validate_routing_decision passes.
FellBack == Routed /\ route_result.ok /\ IsFallbackDecision(Decision)
TriggeringErrors ==
    IF ~route_try(query, llm_reply).ok THEN {route_try(query, llm_reply).err}
    ELSE {Txt("Missing 'tool' field"), Txt("Empty tools list")}
         \cup {Txt("Invalid tool: ") \o str_upper(t.str) : t \in {v \in ToolValues : v.t = "str"}}

\* C29: the fallback checks its keyword lists in a fixed order: a query with both a
\* SQL fallback keyword and a web fallback keyword goes to SQL with confidence 0.6,
\* not to WEB_SEARCH or MULTIPLE; the fallback never returns MULTIPLE; and its
\* reasoning contains the error message that triggered it.
C29_fallback_prefers_sql ==
    FellBack =>
        /\ Decision["tool"] \in {Str(SQL), Str(WEB_SEARCH), Str(RAG)}
        /\ "tools" \notin DOMAIN Decision
        /\ (MentionsAny(fallback_sql_keywords, query) /\ MentionsAny(fallback_web_keywords, query)) =>
              /\ Decision["tool"] = Str(SQL)
              /\ Decision["confidence"] = Num(60)
        /\ \E e \in TriggeringErrors : str_endswith(Decision["reasoning"].str, e)

\* A query with keywords of both lists fell back to SQL after the model raised.
C29_witness ==
    /\ FellBack
    /\ query = q_count_novosti
    /\ llm_reply = [k |-> "raise", err |-> ErrTimeout]
    /\ Decision["tool"] = Str(SQL)
    /\ str_in(ErrTimeout, Decision["reasoning"].str)

\* search_and_answer was called, the search returned results, and the llm.invoke of
\* _generate_answer raised.
GenerationFailed ==
    /\ Called("_execute_web_search_agent")
    /\ ~is_news_query(call.query)
    /\ call.search_initialized
    /\ call.tavily.k = "response"
    /\ call.tavily.response.results # <<>>
    /\ call.llm.k = "raise"
ProviderSummary == call.tavily.response.answer

\* C30: in search_and_answer, when the search returns at least one result and the
\* answer-generation call raises, the result is a success with the search provider's
\* summary as the answer exactly when the first result carries a non-empty
\* tavily_answer; otherwise it is a failure whose answer describes the error and whose
\* sources are empty.
C30_provider_summary_stands_in ==
    GenerationFailed =>
        /\ call.did.ret.success <=> ProviderSummary # <<>>
        /\ call.did.ret.success =>
              /\ call.did.ret.answer = Txt("Na osnove poiska: ") \o ProviderSummary
              /\ call.did.ret.sources = web_extract_sources(_parse_results(call.tavily.response))
        /\ ~call.did.ret.success =>
              /\ call.did.ret.answer = Txt("Proizoshla oshibka pri poiske v internete: ") \o call.llm.err
              /\ call.did.ret.sources = <<>>

\* The model raised and the provider's summary became the answer.
C30_witness ==
    /\ GenerationFailed
    /\ ProviderSummary = Txt("summary")
    /\ outcome.success
    /\ str_in(ProviderSummary, outcome.answer)

====
